---- MODULE Spec2Model ----
(***************************************************************************)
(* A model of the mobx-vue-bridge synchronisation engine: the bridging     *)
(* object returned by useMobxBridge, its backing refs, the echo guards,    *)
(* the deep proxy with its microtask flush, and the MobX observation       *)
(* wiring (observe / deepObserve / reaction).                              *)
(*                                                                         *)
(* JavaScript runs every handler to completion, so one action of the model *)
(* is one synchronous call of the caller (an assignment, an array method   *)
(* through a proxy, a change made on the store) together with every        *)
(* listener MobX invokes inside it, or one queued microtask.               *)
(*                                                                         *)
(* Besides Spec (the data slots and their deep proxies) and MemberSpec     *)
(* (the accessor members) there are TeardownSpec (the unmount),            *)
(* TwoBridgesSpec (two bridges on one store), SetupSpec (one call of       *)
(* useMobxBridge on any argument: validation, classification of a member,  *)
(* installation), EqualitySpec (isEqual on graphs of objects), FlushSpec   *)
(* (queued flushes up to and after the unmount), ReentrantSpec (a store or *)
(* a watcher that writes again during a write) and ListSpec (the length of *)
(* the list of subscriptions).                                             *)
(***************************************************************************)
EXTENDS Integers, Sequences, FiniteSets, TLC

\* ------------------------------------------------------------------ bounds
MaxLen == 2      \* longest array held by a slot
MaxElem == 2     \* array elements are 1..MaxElem
MaxNum == 1      \* primitive numbers are 0..MaxNum
MaxQueue == 2    \* microtasks queued at one time
MaxInner == 3    \* objects below the two arguments of isEqual
MaxScalar == 2   \* the numbers in those objects are 1..MaxScalar
MaxAccess == 2   \* reads of, and assignments to, a callable member
MaxDisposed == 2 \* disposed subscriptions followed in the disposal list

DataProps == {"items", "count"}     \* members.properties of the store
GetterProps == {"itemCount"}             \* gettersOnly: get itemCount() { return this.items.length }
\* getterSetterPairs: get value() { return this._value } with
\* set value(val) { if (val < 0) throw new Error(...); this._value = val },
\* and the computed get doubled() { return this.count * 2 }, whose setter is
\* MobX's own and throws "... not possible to assign ..."
PairProps == {"value", "doubled"}
\* settersOnly: set command(cmd), which rejects a negative cmd as set value
\* does and stores the others in this._value
SetterProps == {"command"}
\* the members setupGetterObservation observes
ObservedGetters == GetterProps \cup PairProps
\* the accessor members of the bridging object
Members == GetterProps \cup PairProps \cup SetterProps

\* ------------------------------------------------------------------ values
\* A JavaScript value: undefined, null, a number, or an array of numbers.
\* Hole is an empty array slot (reads as undefined).
Hole == 0
Undefined == [t |-> "undefined", n |-> 0, a |-> << >>]
Null == [t |-> "null", n |-> 0, a |-> << >>]
Num(n) == [t |-> "number", n |-> n, a |-> << >>]
Arr(a) == [t |-> "array", n |-> 0, a |-> a]

Elems == 1..MaxElem
Arrays == UNION {[1..k -> Elems] : k \in 0..MaxLen}
Values == {Null} \cup {Num(n) : n \in 0..MaxNum} \cup {Arr(a) : a \in Arrays}

\* the values the application gives each property: items is an array or
\* null, count a number
SlotValues(p) ==
  IF p = "items" THEN {Null} \cup {Arr(a) : a \in Arrays} ELSE {Num(n) : n \in 0..MaxNum}

\* value && typeof value === 'object'
IsObject(v) == v.t = "array"

\* utils/equality.js isEqual, on the values above
isEqual(a, b) ==
  IF a.t \in {"null", "undefined"} \/ b.t \in {"null", "undefined"} THEN a.t = b.t
  ELSE IF a.t = "number" /\ b.t = "number" THEN a.n = b.n
  ELSE IF a.t # b.t THEN FALSE
  ELSE /\ Len(a.a) = Len(b.a)
       /\ \A i \in 1..Len(a.a) : a.a[i] = b.a[i]

\* clone(value): a structurally identical value with a new identity.  The new
\* identity is what WriteRef below accounts for (proxies over the old object
\* keep the old object).
clone(v) == [t |-> v.t, n |-> v.n, a |-> [i \in 1..Len(v.a) |-> v.a[i]]]

\* toJS(value): the plain snapshot of an observable value
toJS(v) == [t |-> v.t, n |-> v.n, a |-> [i \in 1..Len(v.a) |-> v.a[i]]]

\* ------------------------------------------------- array methods as traps
\* A call of an Array.prototype method on a proxy runs, per ECMAScript, a
\* fixed sequence of [[Set]] / [[Delete]] operations on the proxy.  [[Set]]
\* (of an index or of "length") reaches the proxy's set trap; [[Delete]] has
\* no trap in createDeepProxy and goes to the target directly.
\* An operation: m is the method, x the inserted item (Hole: none), i the
\* index or start, d the delete count.
Op(m, x, i, d) == [m |-> m, x |-> x, i |-> i, d |-> d]
SetT(i, v) == [k |-> "set", i |-> i, v |-> v]
DelT(i) == [k |-> "del", i |-> i, v |-> Hole]
LenT(n) == [k |-> "len", i |-> 0, v |-> n]

Holes(c) == [j \in 1..c |-> Hole]

\* Array.prototype.push(x)
PushTraps(a, x) == << SetT(Len(a), x), LenT(Len(a) + 1) >>

\* Array.prototype.shift()
ShiftTraps(a) ==
  LET n == Len(a) IN
  IF n = 0 THEN << LenT(0) >>
  ELSE [j \in 1..(n - 1) |-> SetT(j - 1, a[j + 1])] \o << DelT(n - 1), LenT(n - 1) >>

\* Array.prototype.unshift(x)
UnshiftTraps(a, x) ==
  LET n == Len(a) IN
  [j \in 1..n |-> SetT(n - j + 1, a[n - j + 1])] \o << SetT(0, x), LenT(n + 1) >>

\* Array.prototype.splice(start, deleteCount, ...items), items of length <= 1
SpliceTraps(a, start, dc, x) ==
  LET n == Len(a)
      ic == IF x = Hole THEN 0 ELSE 1
      down == IF ic < dc
              THEN [j \in 1..(n - dc - start) |-> SetT(start + j - 1 + ic, a[start + j + dc])]
                   \o [j \in 1..(dc - ic) |-> DelT(n - j)]
              ELSE << >>
      up == IF ic > dc
            THEN [j \in 1..(n - dc - start) |->
                    LET k == n - dc - j + 1 IN SetT(k + ic - 1, a[k + dc])]
            ELSE << >>
      ins == IF ic = 1 THEN << SetT(start, x) >> ELSE << >>
  IN down \o up \o ins \o << LenT(n - dc + ic) >>

\* proxy[i] = x
IndexTraps(a, i, x) == << SetT(i, x) >>

Traps(op, a) ==
  CASE op.m = "push" -> PushTraps(a, op.x)
    [] op.m = "shift" -> ShiftTraps(a)
    [] op.m = "unshift" -> UnshiftTraps(a, op.x)
    [] op.m = "splice" -> SpliceTraps(a, op.i, op.d, op.x)
    [] op.m = "index" -> IndexTraps(a, op.i, op.x)

\* the effect of one [[Set]] / [[Delete]] on the target array
ApplyTrap(a, tr) ==
  CASE tr.k = "set" -> IF tr.i < Len(a) THEN [a EXCEPT ![tr.i + 1] = tr.v]
                       ELSE a \o Holes(tr.i - Len(a)) \o << tr.v >>
    [] tr.k = "del" -> IF tr.i < Len(a) THEN [a EXCEPT ![tr.i + 1] = Hole] ELSE a
    [] tr.k = "len" -> IF tr.v <= Len(a) THEN SubSeq(a, 1, tr.v)
                       ELSE a \o Holes(tr.v - Len(a))

RECURSIVE ApplyTraps(_, _)
ApplyTraps(a, trs) ==
  IF trs = << >> THEN a ELSE ApplyTraps(ApplyTrap(a, Head(trs)), Tail(trs))

\* what the method does to a plain array (and to a MobX observable array,
\* which applies it as one change)
Result(op, a) == ApplyTraps(a, Traps(op, a))

\* the operations a caller may apply to array a within the bounds: push,
\* shift, unshift, splice(i, d) and splice(i, d, MaxElem) with d >= 1, and
\* a[i] = x
OpsFor(a) ==
  LET n == Len(a) IN
    {Op("push", x, 0, 0) : x \in {y \in Elems : n < MaxLen}}
    \cup {Op("shift", Hole, 0, 0)}
    \cup {Op("unshift", x, 0, 0) : x \in {y \in Elems : n < MaxLen}}
    \cup {Op("splice", x, i, d) : x \in {Hole, MaxElem}, i \in 0..n, d \in 1..n}
    \cup {Op("index", x, i, 0) : x \in Elems, i \in 0..(n - 1)}

Applicable(op, a) ==
  /\ op \in OpsFor(a)
  /\ op.m = "splice" => op.i + op.d <= Len(a)

\* ------------------------------------------------------ the bridge state
\* The handlers below are functions on a record s of the whole state:
\*   allowDirectMutation       options.allowDirectMutation
\*   mobx                      the store's observable properties
\*   propertyRefs, getterRefs  the backing refs (.value)
\*   reactionPrev              the last value each reaction's data function gave
\*   updatingFromVue/-FromMobx the two echo guard sets
\*   deepObserveSubscriptions  per property, the tracked deepObserve
\*                             subscription: NoSub, or a subscription on the
\*                             property's current value ("cur") or on a value
\*                             the property held before ("stale")
\*   liveDeep                  the deepObserve subscriptions not yet disposed
\*   handle                    per property, a proxy the caller keeps
\*                             (const h = state.items)
\*   microtasks                the queued flush callbacks
\*   proxy                     the proxy whose method is running
\*   trace                     what the running operation did so far
\*   privateValue              the store's _value field (not bridged: its
\*                             name starts with an underscore)
\*   setterRefs                the backing refs of the write-only members
\*   readOnlyDetected          the names found read-only on a write
\*   disposedKept              the number of disposed subscriptions the
\*                             list subscriptions still holds (the list is
\*                             s.subscriptions and that many entries more);
\*                             counted by the actions of ListSpec, which is
\*                             the one specification that reads it
\*   thrown                    the error the running operation has thrown
\*                             and nothing caught: "none", "readonly"
\*                             (throwReadOnlyError), "notWritable" (MobX's
\*                             error of a computed without setter) or
\*                             "other" (an error of the store's own setter)
NoSub == "none"
NoProxy == [prop |-> "", attached |-> FALSE, pending |-> FALSE, held |-> FALSE]
NoHandle == [st |-> "none", pending |-> FALSE]
Ev(e, p) == [e |-> e, p |-> p]
\* F applied to the value of v
Strict(v, F(_)) == CHOOSE r \in {F(x) : x \in {v}} : TRUE
Emit(s, e) == [s EXCEPT !.trace = Append(@, e)]

\* propertyRefs[p].value = v.  v is a new object: a proxy created over the
\* previous value keeps that previous object as its target ("detached").
\* Nothing in the bridge reads a detached object again (getRoot reads
\* propertyRefs[p].value), so its contents are not part of the state.
WriteRef(st, p, v) ==
  LET Run(s) ==
        [s EXCEPT !.propertyRefs[p] = v,
                  !.handle[p] = IF @.st = "attached" THEN [@ EXCEPT !.st = "detached"] ELSE @,
                  !.proxy = IF @.prop = p /\ @.attached THEN [@ EXCEPT !.attached = FALSE] ELSE @]
  IN Strict(st, Run)

\* createMobxToVueUpdater with the comparison inverted
createMobxToVueUpdater_InvertedCompare(st, p) ==
  LET Run(s) ==
        IF p \in s.updatingFromVue THEN Emit(s, Ev("echoSkipped", p))
        ELSE LET s1 == [s EXCEPT !.updatingFromMobx = @ \cup {p}]
                 nextValue == toJS(s1.mobx[p])
                 s2 == IF isEqual(s1.propertyRefs[p], nextValue)
                       THEN Emit(WriteRef(s1, p, nextValue), Ev("refWrite", p))
                       ELSE s1
             IN [s2 EXCEPT !.updatingFromMobx = @ \ {p}]
  IN Strict(st, Run)

\* helpers.js createMobxToVueUpdater
createMobxToVueUpdater(st, p) ==
  LET Run(s) ==
        IF p \in s.updatingFromVue THEN Emit(s, Ev("echoSkipped", p))
        ELSE LET s1 == [s EXCEPT !.updatingFromMobx = @ \cup {p}]
                 nextValue == toJS(s1.mobx[p])
                 s2 == IF ~isEqual(s1.propertyRefs[p], nextValue)
                       THEN Emit(WriteRef(s1, p, nextValue), Ev("refWrite", p))
                       ELSE s1
             IN [s2 EXCEPT !.updatingFromMobx = @ \ {p}]
  IN Strict(st, Run)

\* a subscription: observe(target, p, ...), reaction(... target[p] ...), or
\* deepObserve on the value of p, current or former
Sub(kind, p, which) == <<kind, p, which>>

\* helpers.js safelyDisposeSubscription: the disposer is called in
\* try/catch; throws says that this disposer throws (and so leaves its
\* subscription as it was).  The bridge's list keeps a subscription that was
\* disposed, and disposing it once more does nothing: s.subscriptions is
\* the list without the subscriptions already disposed.
safelyDisposeSubscription(st, subscription, throws) ==
  LET Run(s) ==
        IF throws THEN Emit(s, Ev("disposeFailed", subscription[2]))
        ELSE IF subscription[1] = "deep"
        THEN Emit([s EXCEPT !.liveDeep = @ \ {<<subscription[2], subscription[3]>>},
                            !.subscriptions = @ \ {subscription}],
                  Ev("dispose", subscription[2]))
        ELSE [s EXCEPT !.live = @ \ {subscription},
                       !.subscriptions = @ \ {subscription}]
  IN Strict(st, Run)

\* helpers.js deepObserveProperty: deepObserve(target[propertyName], ...)
deepObserveProperty(s, p) ==
  IF ~IsObject(s.mobx[p]) THEN NoSub ELSE "cur"

\* setupDeepObserve that does not push the subscription to the list
setupDeepObserve_NoPush(st, p, value) ==
  LET Run(s) ==
        LET tracked == s.deepObserveSubscriptions[p]
            s1 == IF tracked # NoSub
                  THEN [safelyDisposeSubscription(s, Sub("deep", p, tracked), FALSE)
                          EXCEPT !.deepObserveSubscriptions[p] = NoSub]
                  ELSE s
        IN IF ~IsObject(value) THEN s1
           ELSE LET deepObserveSub == deepObserveProperty(s1, p) IN
                IF deepObserveSub # NoSub
                THEN Emit([s1 EXCEPT !.deepObserveSubscriptions[p] = deepObserveSub,
                                     !.liveDeep = @ \cup {<<p, deepObserveSub>>}],
                          Ev("deepObserve", p))
                ELSE s1
  IN Strict(st, Run)

\* mobxVueBridge.js setupDeepObserve
setupDeepObserve(st, p, value) ==
  LET Run(s) ==
        LET tracked == s.deepObserveSubscriptions[p]
            s1 == IF tracked # NoSub
                  THEN [safelyDisposeSubscription(s, Sub("deep", p, tracked), FALSE)
                          EXCEPT !.deepObserveSubscriptions[p] = NoSub]
                  ELSE s
        IN IF ~IsObject(value) THEN s1
           ELSE LET deepObserveSub == deepObserveProperty(s1, p) IN
                IF deepObserveSub # NoSub
                THEN Emit([s1 EXCEPT !.deepObserveSubscriptions[p] = deepObserveSub,
                                     !.liveDeep = @ \cup {<<p, deepObserveSub>>},
                                     !.subscriptions = @ \cup {Sub("deep", p, deepObserveSub)}],
                          Ev("deepObserve", p))
                ELSE s1
  IN Strict(st, Run)

\* observeProperty without onValueChanged: deepObserve is not re-subscribed
observeProperty_NoResubscribe(st, p, newValue) ==
  LET Run(s) ==
        createMobxToVueUpdater(Emit(s, Ev("notify", p)), p)
  IN Strict(st, Run)

\* helpers.js observeProperty: the listener given to observe(target, p, ...)
observeProperty(st, p, newValue) ==
  LET Run(s) ==
        setupDeepObserve(createMobxToVueUpdater(Emit(s, Ev("notify", p)), p), p, newValue)
  IN Strict(st, Run)

\* the store's getter get itemCount() { return this.items.length }, which throws
\* when items is null, as helpers.js safelyReadGetter reads it: a throw
\* gives undefined
itemCount(items) ==
  IF IsObject(items) THEN toJS(Num(Len(items.a))) ELSE Undefined
\* safelyReadGetter that gives the ref's value when the getter throws
safelyReadGetter_StaleOnThrow(s, d) ==
  IF d = "itemCount"
  THEN IF IsObject(s.mobx["items"]) THEN itemCount(s.mobx["items"]) ELSE s.getterRefs[d]
  ELSE IF d = "doubled" THEN toJS(Num(s.mobx["count"].n * 2))
  ELSE toJS(s.privateValue)

\* the data function of observeGetter's reaction: toJS(target[propertyName])
\* in try/catch
safelyReadGetter(s, d) ==
  IF d = "itemCount" THEN itemCount(s.mobx["items"])
  ELSE IF d = "doubled" THEN toJS(Num(s.mobx["count"].n * 2))
  ELSE toJS(s.privateValue)

\* helpers.js safelyReadInitialValue: toJS(object[propertyName]), undefined
\* when the read throws
safelyReadInitialValue(s, d) == safelyReadGetter(s, d)

\* observeGetter whose effect has the comparison inverted
observeGetter_InvertedCompare(st, d) ==
  LET Run(s) ==
        LET nextValue == safelyReadGetter(s, d) IN
        IF nextValue = s.reactionPrev[d] THEN s
        ELSE LET s1 == [s EXCEPT !.reactionPrev[d] = nextValue] IN
             IF isEqual(s1.getterRefs[d], nextValue)
             THEN [s1 EXCEPT !.getterRefs[d] = nextValue]
             ELSE s1
  IN Strict(st, Run)

\* observeGetter whose effect leaves a ref that holds undefined
observeGetter_KeepsUndefined(st, d) ==
  LET Run(s) ==
        LET nextValue == safelyReadGetter(s, d) IN
        IF nextValue = s.reactionPrev[d] THEN s
        ELSE LET s1 == [s EXCEPT !.reactionPrev[d] = nextValue] IN
             IF s1.getterRefs[d] # Undefined /\ ~isEqual(s1.getterRefs[d], nextValue)
             THEN [s1 EXCEPT !.getterRefs[d] = nextValue]
             ELSE s1
  IN Strict(st, Run)

\* helpers.js observeGetter: reaction(safelyReadGetter, updateRefWhenChanged).
\* MobX runs the effect when the data function's result changed.
observeGetter(st, d) ==
  LET Run(s) ==
        LET nextValue == safelyReadGetter(s, d) IN
        IF nextValue = s.reactionPrev[d] THEN s
        ELSE LET s1 == [s EXCEPT !.reactionPrev[d] = nextValue] IN
             IF ~isEqual(s1.getterRefs[d], nextValue)
             THEN [s1 EXCEPT !.getterRefs[d] = nextValue]
             ELSE s1
  IN Strict(st, Run)

\* MobX runs the pending reactions when the outermost batch ends; a disposed
\* reaction does not run
RECURSIVE RunReactions(_, _)
RunReactions(st, ds) ==
  LET Run(s) ==
        IF ds = {} THEN s
        ELSE LET d == CHOOSE x \in ds : TRUE IN
             RunReactions(IF Sub("reaction", d, "") \in s.live THEN observeGetter(s, d) ELSE s,
                          ds \ {d})
  IN Strict(st, Run)

\* MobX keeps the value when the assigned one is the same (comparer.default);
\* an assigned plain array is always made into a new observable array
MobxUnchanged(old, v) == ~IsObject(v) /\ old = v

\* The second bridge on the same store, where there is one: the state of its
\* data slots.  Swap gives the state in which the two bridges have changed
\* places, so that H applied to Swap(s) is the second bridge's handler H.
PeerFields(st) ==
  LET Run(s) ==
        [present |-> TRUE, allowDirectMutation |-> s.allowDirectMutation,
         propertyRefs |-> s.propertyRefs, updatingFromVue |-> s.updatingFromVue,
         updatingFromMobx |-> s.updatingFromMobx,
         deepObserveSubscriptions |-> s.deepObserveSubscriptions,
         liveDeep |-> s.liveDeep, subscriptions |-> s.subscriptions, live |-> s.live,
         handle |-> s.handle]
  IN Strict(st, Run)

\* two bridges that use the same two guard sets
Swap_SharedGuards(st) ==
  LET Run(s) ==
        [s EXCEPT !.allowDirectMutation = s.peer.allowDirectMutation,
                  !.propertyRefs = s.peer.propertyRefs,
                  !.deepObserveSubscriptions = s.peer.deepObserveSubscriptions,
                  !.liveDeep = s.peer.liveDeep,
                  !.subscriptions = s.peer.subscriptions,
                  !.live = s.peer.live,
                  !.handle = s.peer.handle,
                  !.peer = [PeerFields(s) EXCEPT !.updatingFromVue = s.peer.updatingFromVue,
                                                 !.updatingFromMobx = s.peer.updatingFromMobx]]
  IN Strict(st, Run)

\* mobxVueBridge.js: updatingFromMobx, updatingFromVue, propertyRefs,
\* subscriptions, deepObserveSubscriptions are locals of one useMobxBridge call
Swap(st) ==
  LET Run(s) ==
        [s EXCEPT !.allowDirectMutation = s.peer.allowDirectMutation,
                  !.propertyRefs = s.peer.propertyRefs,
                  !.updatingFromVue = s.peer.updatingFromVue,
                  !.updatingFromMobx = s.peer.updatingFromMobx,
                  !.deepObserveSubscriptions = s.peer.deepObserveSubscriptions,
                  !.liveDeep = s.peer.liveDeep,
                  !.subscriptions = s.peer.subscriptions,
                  !.live = s.peer.live,
                  !.handle = s.peer.handle,
                  !.peer = PeerFields(s)]
  IN Strict(st, Run)

\* the value of p was replaced: a deepObserve subscription on it is now one
\* on a former value
Former(st, p) ==
  LET Run(s) ==
        [s EXCEPT !.liveDeep = (@ \ {<<p, "cur">>}) \cup
                               (IF <<p, "cur">> \in @ THEN {<<p, "stale">>} ELSE {}),
                  !.subscriptions = (@ \ {Sub("deep", p, "cur")}) \cup
                                    (IF Sub("deep", p, "cur") \in @
                                     THEN {Sub("deep", p, "stale")} ELSE {}),
                  !.deepObserveSubscriptions[p] = IF @ = "cur" THEN "stale" ELSE @]
  IN Strict(st, Run)

\* MobX calls the listener of this bridge's observe(target, p, ...), unless
\* it is disposed
NotifyObserve(st, p, v) ==
  LET Run(s) ==
        IF Sub("observe", p, "") \in s.live THEN observeProperty(s, p, v) ELSE s
  IN Strict(st, Run)

\* MobX calls the listener of this bridge's deepObserve on the value of p,
\* unless it is disposed
NotifyDeepObserve(st, p) ==
  LET Run(s) ==
        IF <<p, "cur">> \in s.liveDeep
        THEN createMobxToVueUpdater(Emit(s, Ev("deepNotify", p)), p)
        ELSE s
  IN Strict(st, Run)

\* the same for the second bridge, where there is one
NotifyPeerObserve(st, p, v) ==
  LET Run(s) ==
        IF s.peer.present THEN Swap(NotifyObserve(Former(Swap(s), p), p, v)) ELSE s
  IN Strict(st, Run)

NotifyPeerDeepObserve(st, p) ==
  LET Run(s) ==
        IF s.peer.present THEN Swap(NotifyDeepObserve(Swap(s), p)) ELSE s
  IN Strict(st, Run)

\* mobxObject[p] = v on an observable property: store the value, call the
\* observe listeners (of either bridge: they do not touch each other's
\* state, so their order is of no effect), then run the reactions
MobxSet(st, p, v) ==
  LET Run(s) ==
        IF MobxUnchanged(s.mobx[p], v) THEN s
        ELSE RunReactions(
               NotifyPeerObserve(
                 NotifyObserve(Former([s EXCEPT !.mobx[p] = v], p), p, v), p, v),
               ObservedGetters)
  IN Strict(st, Run)

\* an in-place change of the observable array mobx[p] (one MobX change):
\* the deepObserve listeners on that array run, then the reactions
MobxSplice(st, p, op) ==
  LET Run(s) ==
        RunReactions(
          NotifyPeerDeepObserve(
            NotifyDeepObserve([s EXCEPT !.mobx[p] = Arr(Result(op, @.a))], p), p),
          ObservedGetters)
  IN Strict(st, Run)

\* mobxVueBridge.js onUnmounted(() => subscriptions.forEach(
\* safelyDisposeSubscription)); faulty are the subscriptions whose disposer
\* throws.  An error that nothing caught would end the forEach.
RECURSIVE DisposeEach(_, _, _)
DisposeEach(st, subs, faulty) ==
  LET Run(s) ==
        IF subs = {} \/ s.thrown # "none" THEN s
        ELSE LET sub == CHOOSE x \in subs : TRUE IN
             DisposeEach(safelyDisposeSubscription(s, sub, sub \in faulty), subs \ {sub}, faulty)
  IN Strict(st, Run)

onUnmounted(st, faulty) ==
  LET Run(s) ==
        [DisposeEach(s, s.subscriptions, faulty)
           EXCEPT !.unmounted = [done |-> TRUE, failed |-> faulty]]
  IN Strict(st, Run)

\* guardAgainstEchoLoop that never adds the name to the guard set
guardAgainstEchoLoop_NoGuard(st, p, v) ==
  LET Run(s) ==
        LET s2 == MobxSet(Emit(s, Ev("assign", p)), p, v)
        IN [s2 EXCEPT !.updatingFromVue = @ \ {p}]
  IN Strict(st, Run)

\* helpers.js guardAgainstEchoLoop around target[p] = v
guardAgainstEchoLoop(st, p, v) ==
  LET Run(s) ==
        LET s1 == [s EXCEPT !.updatingFromVue = @ \cup {p}]
            s2 == MobxSet(Emit(s1, Ev("assign", p)), p, v)
        IN [s2 EXCEPT !.updatingFromVue = @ \ {p}]
  IN Strict(st, Run)

\* createTwoWayBindingSetter that updates the ref and not the store
createTwoWayBindingSetter_RefOnly(st, p, value) ==
  LET Run(s) ==
        IF ~s.allowDirectMutation THEN Emit(s, Ev("warn", p))
        ELSE IF ~isEqual(s.propertyRefs[p], value)
             THEN WriteRef(s, p, clone(value))
             ELSE s
  IN Strict(st, Run)

\* createTwoWayBindingSetter without the comparison with the ref
createTwoWayBindingSetter_AlwaysWrites(st, p, value) ==
  LET Run(s) ==
        IF ~s.allowDirectMutation THEN Emit(s, Ev("warn", p))
        ELSE LET cloned == clone(value) IN
             guardAgainstEchoLoop(WriteRef(s, p, cloned), p, cloned)
  IN Strict(st, Run)

\* helpers.js createTwoWayBindingSetter: state[p] = value
createTwoWayBindingSetter(st, p, value) ==
  LET Run(s) ==
        IF ~s.allowDirectMutation THEN Emit(s, Ev("warn", p))
        ELSE IF ~isEqual(s.propertyRefs[p], value)
             THEN LET cloned == clone(value) IN
                  guardAgainstEchoLoop(WriteRef(s, p, cloned), p, cloned)
             ELSE s
  IN Strict(st, Run)

\* target[p] = value on an accessor of the store: what the store's setter
\* does.  The setter runs as one MobX action; the reactions run when it ends.
StoreSetter(st, p, value) ==
  LET Run(s) ==
        LET s1 == Emit(s, Ev("sourceSet", p)) IN
        IF p = "doubled" THEN [s1 EXCEPT !.thrown = "notWritable"]
        ELSE IF value.n < 0 THEN [s1 EXCEPT !.thrown = "other"]
        ELSE RunReactions([s1 EXCEPT !.privateValue = value], ObservedGetters)
  IN Strict(st, Run)

\* --------------------------- stores and watchers that act during a write
\* what a normalising store makes of a value assigned to a data slot: a
\* count above 0 becomes 0, an array keeps its first element only
Normalised(v) ==
  IF v.t = "number" /\ v.n > 0 THEN Num(0)
  ELSE IF IsObject(v) /\ Len(v.a) > 1 THEN Arr(SubSeq(v.a, 1, 1))
  ELSE v

\* target[p] = v on a store that rejects the assignment (an interceptor of
\* the store throws): nothing is stored and the error leaves the assignment
MobxSetRejected(st, p, v) ==
  Emit([st EXCEPT !.thrown = "other"], Ev("rejected", p))

\* the reaction of a normalising store on p: where the value just assigned
\* needs it, p is assigned the normalised value, before the first assignment
\* returns
NormaliseReaction(st, p, v) ==
  IF Normalised(v) = v THEN st
  ELSE MobxSet(Emit(st, Ev("normalise", p)), p, Normalised(v))

\* target[p] = v on a store that normalises p
MobxSetNormalised(st, p, v) ==
  NormaliseReaction(MobxSet(st, p, v), p, v)

\* helpers.js guardAgainstEchoLoop around target[p] = v, the store being one
\* that rejects ("rejects") or normalises ("normalises") the value.  The
\* finally takes the name out of the guard set; there is no catch.
guardAgainstEchoLoopOn(st, p, v, how) ==
  [(IF how = "rejects"
    THEN MobxSetRejected(Emit([st EXCEPT !.updatingFromVue = @ \cup {p}], Ev("assign", p)), p, v)
    ELSE MobxSetNormalised(Emit([st EXCEPT !.updatingFromVue = @ \cup {p}], Ev("assign", p)), p, v))
   EXCEPT !.updatingFromVue = @ \ {p}]

\* helpers.js createTwoWayBindingSetter: state[p] = value on an observable
\* property of such a store
createTwoWayBindingSetterOn(st, p, value, how) ==
  Strict(st, LAMBDA s :
    IF ~s.allowDirectMutation THEN Emit(s, Ev("warn", p))
    ELSE IF ~isEqual(s.propertyRefs[p], value)
    THEN guardAgainstEchoLoopOn(WriteRef(s, p, clone(value)), p, clone(value), how)
    ELSE s)

\* the synchronous watcher of the component on state[p] (watch with flush
\* 'sync'), run by refToUpdate.value = nextValue: it assigns state[p] = w
Watcher(st, p, w) ==
  createTwoWayBindingSetter(Emit(st, Ev("watcher", p)), p, w)

\* helpers.js createMobxToVueUpdater with that watcher in the component
createMobxToVueUpdaterWatched(st, p, w) ==
  Strict(st, LAMBDA s :
    IF p \in s.updatingFromVue THEN Emit(s, Ev("echoSkipped", p))
    ELSE [(IF ~isEqual(s.propertyRefs[p], toJS(s.mobx[p]))
           THEN Watcher(Emit(WriteRef([s EXCEPT !.updatingFromMobx = @ \cup {p}],
                                      p, toJS(s.mobx[p])),
                             Ev("refWrite", p)),
                        p, w)
           ELSE s)
          EXCEPT !.updatingFromMobx = @ \ {p}])

\* helpers.js observeProperty: the listener given to observe(target, p, ...),
\* with that watcher
observePropertyWatched(st, p, newValue, w) ==
  setupDeepObserve(createMobxToVueUpdaterWatched(Emit(st, Ev("notify", p)), p, w),
                   p, newValue)

\* mobxObject[p] = v by the application, with that watcher in the component
MobxSetWatched(st, p, v, w) ==
  Strict(st, LAMBDA s :
    IF MobxUnchanged(s.mobx[p], v) THEN s
    ELSE RunReactions(
           observePropertyWatched(Former([s EXCEPT !.mobx[p] = v], p), p, v, w),
           ObservedGetters))

\* createReadOnlySetter that warns and returns
createReadOnlySetter_WarnOnly(st, p) ==
  LET Run(s) == Emit(s, Ev("warn", p))
  IN Strict(st, Run)

\* helpers.js createReadOnlySetter: state[p] = ... on a getter-only member
createReadOnlySetter(st, p) ==
  LET Run(s) == [s EXCEPT !.thrown = "readonly"]
  IN Strict(st, Run)

\* createLazyValidatedSetter that never marks the name read-only
createLazyValidatedSetter_NeverMarks(st, p, value) ==
  LET Run(s) ==
        IF ~s.allowDirectMutation THEN Emit(s, Ev("warn", p))
        ELSE IF p \in s.readOnlyDetected THEN [s EXCEPT !.thrown = "readonly"]
        ELSE LET s1 == [s EXCEPT !.updatingFromVue = @ \cup {p}]
                 s2 == StoreSetter(s1, p, value)
                 s3 == IF s2.thrown = "notWritable"
                       THEN [s2 EXCEPT !.thrown = "readonly"]
                       ELSE IF s2.thrown = "other"
                       THEN Emit([s2 EXCEPT !.thrown = "none"], Ev("setterWarning", p))
                       ELSE s2
             IN [s3 EXCEPT !.updatingFromVue = @ \ {p}]
  IN Strict(st, Run)

\* createLazyValidatedSetter that takes every error of the write for the
\* read-only one
createLazyValidatedSetter_AnyErrorReadOnly(st, p, value) ==
  LET Run(s) ==
        IF ~s.allowDirectMutation THEN Emit(s, Ev("warn", p))
        ELSE IF p \in s.readOnlyDetected THEN [s EXCEPT !.thrown = "readonly"]
        ELSE LET s1 == [s EXCEPT !.updatingFromVue = @ \cup {p}]
                 s2 == StoreSetter(s1, p, value)
                 s3 == IF s2.thrown # "none"
                       THEN [s2 EXCEPT !.readOnlyDetected = @ \cup {p}, !.thrown = "readonly"]
                       ELSE s2
             IN [s3 EXCEPT !.updatingFromVue = @ \ {p}]
  IN Strict(st, Run)

\* helpers.js createLazyValidatedSetter: state[p] = value on a getter/setter
\* pair.  The write runs inside guardAgainstEchoLoop (try/finally); its catch
\* tells MobX's read-only error (isMobxReadOnlyError) from the others.
createLazyValidatedSetter(st, p, value) ==
  LET Run(s) ==
        IF ~s.allowDirectMutation THEN Emit(s, Ev("warn", p))
        ELSE IF p \in s.readOnlyDetected THEN [s EXCEPT !.thrown = "readonly"]
        ELSE LET s1 == [s EXCEPT !.updatingFromVue = @ \cup {p}]
                 s2 == StoreSetter(s1, p, value)
                 s3 == IF s2.thrown = "notWritable"
                       THEN [s2 EXCEPT !.readOnlyDetected = @ \cup {p}, !.thrown = "readonly"]
                       ELSE IF s2.thrown = "other"
                       THEN Emit([s2 EXCEPT !.thrown = "none"], Ev("setterWarning", p))
                       ELSE s2
             IN [s3 EXCEPT !.updatingFromVue = @ \ {p}]
  IN Strict(st, Run)

\* createWriteOnlySetter that records the value only after the write
createWriteOnlySetter_RefAfterWrite(st, p, value) ==
  LET Run(s) ==
        IF ~s.allowDirectMutation THEN Emit(s, Ev("warn", p))
        ELSE LET s1 == [s EXCEPT !.updatingFromVue = @ \cup {p}]
                 s2 == StoreSetter(s1, p, value)
                 s3 == IF s2.thrown = "none" THEN [s2 EXCEPT !.setterRefs[p] = value] ELSE s2
             IN [s3 EXCEPT !.updatingFromVue = @ \ {p}]
  IN Strict(st, Run)

\* createWriteOnlySetter without the allowDirectMutation check
createWriteOnlySetter_NoMutationCheck(st, p, value) ==
  LET Run(s) ==
        LET s1 == [s EXCEPT !.setterRefs[p] = value, !.updatingFromVue = @ \cup {p}]
            s2 == StoreSetter(s1, p, value)
        IN [s2 EXCEPT !.updatingFromVue = @ \ {p}]
  IN Strict(st, Run)

\* createWriteOnlySetter whose guard has no finally: an error of the store's
\* setter leaves the name in the guard set
createWriteOnlySetter_NoFinally(st, p, value) ==
  LET Run(s) ==
        IF ~s.allowDirectMutation THEN Emit(s, Ev("warn", p))
        ELSE LET s1 == [s EXCEPT !.setterRefs[p] = value, !.updatingFromVue = @ \cup {p}]
                 s2 == StoreSetter(s1, p, value)
             IN IF s2.thrown # "none" THEN s2 ELSE [s2 EXCEPT !.updatingFromVue = @ \ {p}]
  IN Strict(st, Run)

\* helpers.js createWriteOnlySetter: state[p] = value on a setter-only
\* member.  guardAgainstEchoLoop has a finally and no catch: an error of the
\* store's setter leaves the call as it is.
createWriteOnlySetter(st, p, value) ==
  LET Run(s) ==
        IF ~s.allowDirectMutation THEN Emit(s, Ev("warn", p))
        ELSE LET s1 == [s EXCEPT !.setterRefs[p] = value, !.updatingFromVue = @ \cup {p}]
                 s2 == StoreSetter(s1, p, value)
             IN [s2 EXCEPT !.updatingFromVue = @ \ {p}]
  IN Strict(st, Run)

\* the flush callback without updatePending = false
FlushCallback_KeepsPending(st, task) ==
  LET Run(s) ==
        LET p == task.prop
            rootValue == s.propertyRefs[p]
            cloned == clone(rootValue)
            s2 == Emit(WriteRef(s, p, cloned), Ev("flush", p))
        IN guardAgainstEchoLoop(s2, p, cloned)
  IN Strict(st, Run)

\* deepProxy.js: the callback given to queueMicrotask; task.held tells
\* whether the scheduling proxy is the one the caller still keeps
FlushCallback(st, task) ==
  LET Run(s) ==
        LET p == task.prop
            s0 == IF task.held THEN [s EXCEPT !.handle[p].pending = FALSE] ELSE s
            s1 == [s0 EXCEPT !.proxy = IF @.prop = p THEN [@ EXCEPT !.pending = FALSE] ELSE @]
            rootValue == s1.propertyRefs[p]
            cloned == clone(rootValue)
            s2 == Emit(WriteRef(s1, p, cloned), Ev("flush", p))
        IN guardAgainstEchoLoop(s2, p, cloned)
  IN Strict(st, Run)

\* deepProxy.js: queueMicrotask(callback)
queueMicrotask(st, p) ==
  LET Run(s) ==
        Emit([s EXCEPT !.proxy.pending = TRUE,
                       !.microtasks = Append(@, [prop |-> p, held |-> s.proxy.held])],
             Ev("queueMicrotask", p))
  IN Strict(st, Run)

\* a write that lands on a copy of the target
WriteTarget_OnCopy(s, tr) == s

\* target[key] = val, and the deletes of a method, on the running proxy's
\* target: the array in propertyRefs[p].value, or a detached one
WriteTarget(st, tr) ==
  LET Run(s) ==
        IF s.proxy.attached
        THEN [s EXCEPT !.propertyRefs[s.proxy.prop] = Arr(ApplyTrap(@.a, tr))]
        ELSE s
  IN Strict(st, Run)

\* the set trap syncing at once, without queueMicrotask
SetTrap_Immediate(st, tr) ==
  LET Run(s) ==
        IF ~s.allowDirectMutation THEN Emit(s, Ev("warn", s.proxy.prop))
        ELSE LET s1 == Emit(WriteTarget(s, tr), Ev("set", s.proxy.prop)) IN
             FlushCallback(s1, [prop |-> s1.proxy.prop, held |-> s1.proxy.held])
  IN Strict(st, Run)

\* the set trap queueing a flush for every write
SetTrap_AlwaysQueue(st, tr) ==
  LET Run(s) ==
        IF ~s.allowDirectMutation THEN Emit(s, Ev("warn", s.proxy.prop))
        ELSE queueMicrotask(Emit(WriteTarget(s, tr), Ev("set", s.proxy.prop)), s.proxy.prop)
  IN Strict(st, Run)

\* deepProxy.js createDeepProxy: the set trap
SetTrap(st, tr) ==
  LET Run(s) ==
        IF ~s.allowDirectMutation THEN Emit(s, Ev("warn", s.proxy.prop))
        ELSE LET s1 == Emit(WriteTarget(s, tr), Ev("set", s.proxy.prop)) IN
             IF ~s1.proxy.pending THEN queueMicrotask(s1, s1.proxy.prop) ELSE s1
  IN Strict(st, Run)

\* a method call on the proxy: its [[Set]]s go through the trap, its
\* [[Delete]]s to the target
RECURSIVE RunTraps(_, _)
RunTraps(st, trs) ==
  LET Run(s) ==
        IF trs = << >> THEN s
        ELSE LET tr == Head(trs)
                 s1 == IF tr.k = "del" THEN WriteTarget(s, tr) ELSE SetTrap(s, tr)
             IN RunTraps(s1, Tail(trs))
  IN Strict(st, Run)

\* mobxVueBridge.js: the getter of a data property, createDeepProxyForValue:
\* every read of state[p] makes a new proxy with its own updatePending
createDeepProxy(p) ==
  [prop |-> p, attached |-> TRUE, pending |-> FALSE, held |-> FALSE]

\* state[p].method(...) on a proxy read for this call only
ProxyCall(st, p, op) ==
  LET Run(s) ==
        LET s1 == [s EXCEPT !.proxy = createDeepProxy(p)]
            s2 == RunTraps(s1, Traps(op, s1.propertyRefs[p].a))
        IN [s2 EXCEPT !.proxy = NoProxy]
  IN Strict(st, Run)

\* const h = state[p]: the caller keeps the proxy.  A proxy kept before is
\* dropped; its queued callback stays queued.
KeepProxy(st, p) ==
  LET Run(s) ==
        [s EXCEPT !.handle[p] = [st |-> "attached", pending |-> FALSE],
                  !.microtasks = [j \in 1..Len(@) |->
                                    IF @[j].prop = p THEN [@[j] EXCEPT !.held = FALSE] ELSE @[j]]]
  IN Strict(st, Run)

\* h.method(...) on the kept proxy; a is the array h wraps
HandleCall(st, p, op, a) ==
  LET Run(s) ==
        LET h == s.handle[p]
            s1 == [s EXCEPT !.proxy = [prop |-> p, attached |-> h.st = "attached",
                                       pending |-> h.pending, held |-> TRUE]]
            s2 == RunTraps(s1, Traps(op, a))
        IN [s2 EXCEPT !.handle[p] = [st |-> IF s2.proxy.attached THEN "attached" ELSE "detached",
                                     pending |-> s2.proxy.pending],
                      !.proxy = NoProxy]
  IN Strict(st, Run)

\* ------------------------------------------- validation, classification
\* The argument of useMobxBridge: what typeof gives for it and whether it is
\* truthy (null is a falsy "object"), and, for a source object, one member:
\* its name and what the classifier can learn of it,
\*   get, set     Object.getOwnPropertyDescriptor finds a getter / a setter
\*   read         what mobxObject[name] gives: a function, another value, or
\*                a getter that throws
\*   computed     what isComputedProp(mobxObject, name) answers
\*   observable   what isObservableProp(mobxObject, name) answers
MemberNames == {"member", "constructor", "_member"}
Answers == {"true", "false", "throws"}
\* a setter without getter reads as undefined, and a data property cannot
\* throw when read
MemberShapes ==
  {sh \in [get : BOOLEAN, set : BOOLEAN, read : {"function", "value", "throws"},
           computed : Answers, observable : Answers] :
      /\ (~sh.get /\ sh.set) => sh.read = "value"
      /\ (~sh.get /\ ~sh.set) => sh.read # "throws"}
NoShape == [get |-> FALSE, set |-> FALSE, read |-> "value",
            computed |-> "false", observable |-> "false"]
NonObjects ==
  {[typeof |-> x[1], truthy |-> x[2], name |-> "", shape |-> NoShape] :
     x \in {<<"object", FALSE>>, <<"undefined", FALSE>>, <<"number", FALSE>>,
            <<"number", TRUE>>, <<"string", FALSE>>, <<"string", TRUE>>,
            <<"boolean", FALSE>>, <<"boolean", TRUE>>, <<"bigint", FALSE>>,
            <<"bigint", TRUE>>, <<"symbol", TRUE>>, <<"function", TRUE>>}}
SourceObjects ==
  {[typeof |-> "object", truthy |-> TRUE, name |-> n, shape |-> sh] :
     n \in MemberNames, sh \in MemberShapes}

\* p.startsWith('_')
StartsWithUnderscore(p) == p = "_member"

\* what a detector gives: the names it keeps and what it did on the source
\* object while deciding ("descriptor", "read", "introspect", "write")
Detected(names, ops) == [names |-> names, ops |-> ops]

\* memberDetection.js detectGetters
detectGetters(mobxObject, props) ==
  LET sh == mobxObject.shape
      is == IF sh.computed # "throws" THEN sh.computed = "true"
            ELSE IF ~sh.get THEN FALSE
            ELSE IF sh.observable = "throws" THEN FALSE
            ELSE sh.observable = "false"
  IN Detected({p \in props : is},
              IF props = {} THEN {}
              ELSE {"introspect"} \cup (IF sh.computed = "throws" THEN {"descriptor"} ELSE {}))

\* detectSetters that tries the setter out (testSetter) before it answers
detectSetters_TestsSetter(mobxObject, props) ==
  LET sh == mobxObject.shape
      afterComputed == IF sh.observable = "throws" THEN FALSE
                       ELSE sh.observable = "false"
      is == IF ~sh.set THEN FALSE
            ELSE IF sh.read # "value" THEN FALSE
            ELSE IF sh.computed = "true" THEN sh.get
            ELSE IF sh.computed = "throws" /\ sh.get THEN TRUE
            ELSE afterComputed
  IN Detected({p \in props : is},
              IF props = {} THEN {}
              ELSE {"descriptor"} \cup
                   (IF sh.set THEN {"read"} ELSE {}) \cup
                   (IF sh.set /\ sh.read = "value" THEN {"introspect", "write"} ELSE {}))

\* memberDetection.js detectSetters
detectSetters(mobxObject, props) ==
  LET sh == mobxObject.shape
      afterComputed == IF sh.observable = "throws" THEN FALSE
                       ELSE sh.observable = "false"
      is == IF ~sh.set THEN FALSE
            ELSE IF sh.read # "value" THEN FALSE
            ELSE IF sh.computed = "true" THEN sh.get
            ELSE IF sh.computed = "throws" /\ sh.get THEN TRUE
            ELSE afterComputed
  IN Detected({p \in props : is},
              IF props = {} THEN {}
              ELSE {"descriptor"} \cup
                   (IF sh.set THEN {"read"} ELSE {}) \cup
                   (IF sh.set /\ sh.read = "value" THEN {"introspect"} ELSE {}))

\* memberDetection.js detectProperties
detectProperties(mobxObject, props) ==
  LET sh == mobxObject.shape
      is == /\ sh.observable = "true"
            /\ sh.read = "value"
            /\ sh.computed = "false"
  IN Detected({p \in props : is},
              IF props = {} THEN {}
              ELSE {"introspect"} \cup (IF sh.observable = "true" THEN {"read"} ELSE {}))

\* memberDetection.js detectMethods
detectMethods(mobxObject, props) ==
  Detected({p \in props : mobxObject.shape.read = "function"},
           IF props = {} THEN {} ELSE {"read"})

\* memberDetection.js categorizeMobxMembers
categorizeMobxMembers(mobxObject) ==
  LET props == {p \in {mobxObject.name} : p # "constructor" /\ ~StartsWithUnderscore(p)}
      g == detectGetters(mobxObject, props)
      s == detectSetters(mobxObject, props)
      d == detectProperties(mobxObject, props)
      m == detectMethods(mobxObject, props)
  IN [props |-> props, getters |-> g.names, setters |-> s.names,
      properties |-> d.names, methods |-> m.names,
      ops |-> {"names"} \cup g.ops \cup s.ops \cup d.ops \cup m.ops]

\* helpers.js separateGetterSetterPairs, findGettersOnly, findSettersOnly
separateGetterSetterPairs(getters, setters) == {p \in getters : p \in setters}
findGettersOnly(getters, setters) == {p \in getters : p \notin setters}
findSettersOnly(setters, getters) == {p \in setters : p \notin getters}

\* The bridge of one source object, in the making and in use:
\*   phase        "called", then "returned" or "thrown"
\*   error        what the call threw: "none", "argument" (the validation)
\*                or "typeError" (anything later)
\*   members      what categorizeMobxMembers returned, once it was called
\*   dataSlots .. callables   the names bridged by each bridge* function
\*   descriptor   the kind of accessor pair the bridging object has for the
\*                member: the one defineReactiveProperty defined last
\*   refs         the backing refs created
\*   subscriptions  the subscriptions made
\*   sourceOps    what was done on the source object so far
\*   boundMethod  the function bridgeMethod bound: the binding's number
\*   binds        how many bindings of the method were made
\*   lastRead     what the last read of the member gave
\*   warnings     how many warnings were written
\*   last         the operation that ran last
NoMembers == [props |-> {}, getters |-> {}, setters |-> {}, properties |-> {},
              methods |-> {}, ops |-> {}]
NoBinding == 0
Called(mobxObject) ==
  [phase |-> "called", error |-> "none", mobxObject |-> mobxObject,
   classified |-> FALSE, members |-> NoMembers,
   dataSlots |-> {}, readOnlyDerived |-> {}, writableDerived |-> {},
   writeOnlyTriggers |-> {}, callables |-> {},
   descriptor |-> "none", refs |-> {}, subscriptions |-> {}, sourceOps |-> {},
   boundMethod |-> NoBinding, binds |-> 0, lastRead |-> NoBinding,
   warnings |-> 0, last |-> "call"]

\* the validation of useMobxBridge without the test for a falsy argument
isValidSource_TypeofOnly(mobxObject) ==
  mobxObject.typeof = "object"

\* mobxVueBridge.js: !(!mobxObject || typeof mobxObject !== 'object')
isValidSource(mobxObject) ==
  mobxObject.truthy /\ mobxObject.typeof = "object"

\* mobxVueBridge.js useMobxBridge (= usePresenterState), from the call to
\* the return: validation, classification, the bridge* functions in their
\* order, setupPropertyObservation and setupGetterObservation
usePresenterState(su) ==
  LET o == su.mobxObject IN
  IF ~isValidSource(o) THEN [su EXCEPT !.phase = "thrown", !.error = "argument", !.last = "setup"]
  ELSE IF ~o.truthy
  THEN \* Object.getOwnPropertyNames(null) throws
       [su EXCEPT !.phase = "thrown", !.error = "typeError", !.classified = TRUE,
                  !.last = "setup"]
  ELSE
  LET members == categorizeMobxMembers(o)
      getterSetterPairs == separateGetterSetterPairs(members.getters, members.setters)
      gettersOnly == findGettersOnly(members.getters, members.setters)
      settersOnly == findSettersOnly(members.setters, members.getters)
      Final(seq) == IF seq = << >> THEN "none" ELSE seq[Len(seq)]
      defined == (IF members.properties # {} THEN <<"data">> ELSE << >>) \o
                 (IF getterSetterPairs # {} THEN <<"pair">> ELSE << >>) \o
                 (IF gettersOnly # {} THEN <<"getterOnly">> ELSE << >>) \o
                 (IF settersOnly # {} THEN <<"setterOnly">> ELSE << >>) \o
                 (IF members.methods # {} THEN <<"method">> ELSE << >>)
      observed == gettersOnly \cup getterSetterPairs
  IN [su EXCEPT
        !.phase = "returned", !.classified = TRUE, !.members = members,
        !.dataSlots = members.properties,
        !.writableDerived = getterSetterPairs,
        !.readOnlyDerived = gettersOnly,
        !.writeOnlyTriggers = settersOnly,
        !.callables = members.methods,
        !.descriptor = Final(defined),
        !.refs = {<<"propertyRefs", p>> : p \in members.properties} \cup
                 {<<"getterRefs", p>> : p \in observed} \cup
                 {<<"setterRefs", p>> : p \in settersOnly},
        !.subscriptions = {<<"observe", p>> : p \in members.properties} \cup
                          {<<"reaction", p>> : p \in observed},
        !.sourceOps = members.ops \cup
                      (IF members.properties \cup observed \cup members.methods # {}
                       THEN {"read"} ELSE {}) \cup
                      (IF members.methods # {} THEN {"bind"} ELSE {}) \cup
                      (IF members.properties # {} THEN {"observe"} ELSE {}) \cup
                      (IF observed # {} THEN {"reaction"} ELSE {}),
        !.boundMethod = IF members.methods # {} THEN 1 ELSE NoBinding,
        !.binds = IF members.methods # {} THEN 1 ELSE 0,
        !.last = "setup"]

\* bridgeMethod whose get binds the method again on every read
bridgeMethodGet_BindsPerRead(su) ==
  [su EXCEPT !.binds = @ + 1, !.lastRead = su.binds + 1,
             !.sourceOps = @ \cup {"read", "bind"}, !.last = "read"]

\* mobxVueBridge.js bridgeMethod, get: () => boundMethod
bridgeMethodGet(su) ==
  [su EXCEPT !.lastRead = su.boundMethod, !.last = "read"]

\* mobxVueBridge.js bridgeMethod, set: () => warnMethodAssignment(methodName)
bridgeMethodSet(su) ==
  [su EXCEPT !.warnings = @ + 1, !.last = "assign"]

\* --------------------------------------------- isEqual over object graphs
\* Objects have an identity, which isEqual reads (Object.is, the visited
\* Map).  A graph of objects is a heap: a function from object identities to
\* objects, an object being an array or a plain object with its own keys in
\* their order and the values under them; a value is null, a number or a
\* reference Ref(i) to the object i.  The two arguments of isEqual are the
\* objects 1 and 2; the objects below them are InnerObjects.
Ref(i) == [t |-> "ref", n |-> i, a |-> << >>]
Obj(isArray, keys, vals) == [array |-> isArray, keys |-> keys, vals |-> vals]
InnerObjects == 3..(2 + MaxInner)
\* { x: n } and { x: 1, ref: null }
InnerShapes ==
  {Obj(FALSE, <<"x">>, <<Num(n)>>) : n \in 1..MaxScalar}
    \cup {Obj(FALSE, <<"x", "ref">>, <<Num(1), Null>>)}
Elements == {Num(1)} \cup {Ref(i) : i \in InnerObjects}
\* [e], [e, f], { p: e }, { p: e, q: f }, { q: f, p: e }, and { x: n, ref: r }
\* with r null, the object itself or an inner object
ArgumentShapes(self) ==
  {Obj(TRUE, <<"0">>, <<e>>) : e \in Elements}
    \cup {Obj(TRUE, <<"0", "1">>, <<e, f>>) : e \in Elements, f \in Elements}
    \cup {Obj(FALSE, <<"p">>, <<e>>) : e \in Elements}
    \cup {Obj(FALSE, <<"p", "q">>, <<e, f>>) : e \in Elements, f \in Elements}
    \cup {Obj(FALSE, <<"q", "p">>, <<f, e>>) : e \in Elements, f \in Elements}
    \cup {Obj(FALSE, <<"x", "ref">>, <<Num(n), r>>) :
            n \in 1..MaxScalar, r \in {Null, Ref(self)} \cup {Ref(i) : i \in InnerObjects}}
Heaps ==
  {(1 :> x) @@ (2 :> y) @@ inner :
     x \in ArgumentShapes(1), y \in ArgumentShapes(2),
     inner \in [InnerObjects -> InnerShapes]}

\* object[key]
Get(object, key) ==
  object.vals[CHOOSE j \in 1..Len(object.keys) : object.keys[j] = key]
\* Object.keys(object), as a set
KeySet(object) == {object.keys[j] : j \in 1..Len(object.keys)}

\* the result of isEqual and the visited Map it leaves
Compared(eq, visited) == [eq |-> eq, visited |-> visited]

RECURSIVE isEqualIn_VisitedIsEqual(_, _, _, _)
RECURSIVE isEqualIn(_, _, _, _)
RECURSIVE every(_, _, _, _, _)
\* keys.every(key => isEqual(a[key], b[key], visited)): stops at the first
\* false
every(heap, keys, a, b, visited) ==
  IF keys = << >> THEN Compared(TRUE, visited)
  ELSE LET r == isEqualIn(heap, Get(a, Head(keys)), Get(b, Head(keys)), visited) IN
       IF ~r.eq THEN r ELSE every(heap, Tail(keys), a, b, r.visited)

\* isEqual that takes an object it has visited as equal to anything
isEqualIn_VisitedIsEqual(heap, a, b, visited) ==
  IF a.t \in {"null", "undefined"} \/ b.t \in {"null", "undefined"}
  THEN Compared(a = b, visited)
  ELSE IF a.t = "number" /\ b.t = "number" THEN Compared(a.n = b.n, visited)
  ELSE IF a = b THEN Compared(TRUE, visited)
  ELSE IF a.t # b.t THEN Compared(FALSE, visited)
  ELSE IF a.t # "ref" THEN Compared(FALSE, visited)
  ELSE IF a.n \in DOMAIN visited THEN Compared(TRUE, visited)
  ELSE LET seen == visited @@ (a.n :> b.n)
           x == heap[a.n]
           y == heap[b.n]
       IN IF x.array /\ y.array
          THEN IF Len(x.keys) # Len(y.keys) THEN Compared(FALSE, seen)
               ELSE every(heap, x.keys, x, y, seen)
          ELSE IF x.array # y.array THEN Compared(FALSE, seen)
          ELSE IF Len(x.keys) # Len(y.keys) THEN Compared(FALSE, seen)
          ELSE IF ~(\A j \in 1..Len(x.keys) : x.keys[j] \in KeySet(y))
               THEN Compared(FALSE, seen)
          ELSE every(heap, x.keys, x, y, seen)

\* utils/equality.js isEqual(a, b, visited), on the values of a heap
isEqualIn(heap, a, b, visited) ==
  IF a.t \in {"null", "undefined"} \/ b.t \in {"null", "undefined"}
  THEN Compared(a = b, visited)
  ELSE IF a.t = "number" /\ b.t = "number" THEN Compared(a.n = b.n, visited)
  ELSE IF a = b THEN Compared(TRUE, visited)
  ELSE IF a.t # b.t THEN Compared(FALSE, visited)
  ELSE IF a.t # "ref" THEN Compared(FALSE, visited)
  ELSE IF a.n \in DOMAIN visited THEN Compared(visited[a.n] = b.n, visited)
  ELSE LET seen == visited @@ (a.n :> b.n)
           x == heap[a.n]
           y == heap[b.n]
       IN IF x.array /\ y.array
          THEN IF Len(x.keys) # Len(y.keys) THEN Compared(FALSE, seen)
               ELSE every(heap, x.keys, x, y, seen)
          ELSE IF x.array # y.array THEN Compared(FALSE, seen)
          ELSE IF Len(x.keys) # Len(y.keys) THEN Compared(FALSE, seen)
          ELSE IF ~(\A j \in 1..Len(x.keys) : x.keys[j] \in KeySet(y))
               THEN Compared(FALSE, seen)
          ELSE every(heap, x.keys, x, y, seen)

\* the result of isEqual run with a limit on the depth of its recursion:
\* overflow tells that the limit was reached
Limited(eq, visited, overflow) == [eq |-> eq, visited |-> visited, overflow |-> overflow]

RECURSIVE isEqualWithin_NeverVisited(_, _, _, _, _)
RECURSIVE isEqualWithin(_, _, _, _, _)
RECURSIVE everyWithin(_, _, _, _, _, _)
\* keys.every(key => isEqual(a[key], b[key], visited)), depth calls deep at
\* the most
everyWithin(heap, keys, a, b, visited, depth) ==
  IF keys = << >> THEN Limited(TRUE, visited, FALSE)
  ELSE LET r == isEqualWithin(heap, Get(a, Head(keys)), Get(b, Head(keys)), visited, depth) IN
       IF ~r.eq \/ r.overflow THEN r ELSE everyWithin(heap, Tail(keys), a, b, r.visited, depth)

\* isEqual without the lookup in visited
isEqualWithin_NeverVisited(heap, a, b, visited, depth) ==
  IF depth = 0 THEN Limited(FALSE, visited, TRUE)
  ELSE IF a.t \in {"null", "undefined"} \/ b.t \in {"null", "undefined"}
  THEN Limited(a = b, visited, FALSE)
  ELSE IF a.t = "number" /\ b.t = "number" THEN Limited(a.n = b.n, visited, FALSE)
  ELSE IF a = b THEN Limited(TRUE, visited, FALSE)
  ELSE IF a.t # b.t THEN Limited(FALSE, visited, FALSE)
  ELSE IF a.t # "ref" THEN Limited(FALSE, visited, FALSE)
  ELSE LET seen == (a.n :> b.n) @@ visited
           x == heap[a.n]
           y == heap[b.n]
       IN IF x.array /\ y.array
          THEN IF Len(x.keys) # Len(y.keys) THEN Limited(FALSE, seen, FALSE)
               ELSE everyWithin(heap, x.keys, x, y, seen, depth - 1)
          ELSE IF x.array # y.array THEN Limited(FALSE, seen, FALSE)
          ELSE IF Len(x.keys) # Len(y.keys) THEN Limited(FALSE, seen, FALSE)
          ELSE IF ~(\A j \in 1..Len(x.keys) : x.keys[j] \in KeySet(y))
               THEN Limited(FALSE, seen, FALSE)
          ELSE everyWithin(heap, x.keys, x, y, seen, depth - 1)

\* utils/equality.js isEqual(a, b, visited) as isEqualIn gives it, the calls
\* nested depth deep at the most: a call that would go deeper stops the
\* comparison with overflow
isEqualWithin(heap, a, b, visited, depth) ==
  IF depth = 0 THEN Limited(FALSE, visited, TRUE)
  ELSE IF a.t \in {"null", "undefined"} \/ b.t \in {"null", "undefined"}
  THEN Limited(a = b, visited, FALSE)
  ELSE IF a.t = "number" /\ b.t = "number" THEN Limited(a.n = b.n, visited, FALSE)
  ELSE IF a = b THEN Limited(TRUE, visited, FALSE)
  ELSE IF a.t # b.t THEN Limited(FALSE, visited, FALSE)
  ELSE IF a.t # "ref" THEN Limited(FALSE, visited, FALSE)
  ELSE IF a.n \in DOMAIN visited THEN Limited(visited[a.n] = b.n, visited, FALSE)
  ELSE LET seen == visited @@ (a.n :> b.n)
           x == heap[a.n]
           y == heap[b.n]
       IN IF x.array /\ y.array
          THEN IF Len(x.keys) # Len(y.keys) THEN Limited(FALSE, seen, FALSE)
               ELSE everyWithin(heap, x.keys, x, y, seen, depth - 1)
          ELSE IF x.array # y.array THEN Limited(FALSE, seen, FALSE)
          ELSE IF Len(x.keys) # Len(y.keys) THEN Limited(FALSE, seen, FALSE)
          ELSE IF ~(\A j \in 1..Len(x.keys) : x.keys[j] \in KeySet(y))
               THEN Limited(FALSE, seen, FALSE)
          ELSE everyWithin(heap, x.keys, x, y, seen, depth - 1)

\* new Map()
EmptyMap == [i \in {} |-> 0]

\* --------------------------------------------------------------- the model
VARIABLES allowDirectMutation, mobx, propertyRefs, getterRefs, reactionPrev,
          updatingFromVue, updatingFromMobx, deepObserveSubscriptions,
          liveDeep, handle, microtasks, trace, lastOp,
          privateValue, setterRefs, readOnlyDetected, thrown,
          subscriptions, live, unmounted, peer, disposedKept, setup, comparison

\* the variables of the bridge: all but setup (the bridge of one source
\* object in the making) and comparison (one call of isEqual)
bridgeVars == << allowDirectMutation, mobx, propertyRefs, getterRefs, reactionPrev,
                 updatingFromVue, updatingFromMobx, deepObserveSubscriptions,
                 liveDeep, handle, microtasks, trace, lastOp,
                 privateValue, setterRefs, readOnlyDetected, thrown,
                 subscriptions, live, unmounted, peer, disposedKept >>

vars == << allowDirectMutation, mobx, propertyRefs, getterRefs, reactionPrev,
           updatingFromVue, updatingFromMobx, deepObserveSubscriptions,
           liveDeep, handle, microtasks, trace, lastOp,
           privateValue, setterRefs, readOnlyDetected, thrown,
           subscriptions, live, unmounted, peer, disposedKept, setup, comparison >>

\* lastOp: the operation that ran last, its property and its argument (for
\* a method call, the array the method gives when applied once)
Last(kind, p, v) == [kind |-> kind, p |-> p, v |-> v]

\* the state as a record, at the start of an operation
St ==
  [allowDirectMutation |-> allowDirectMutation, mobx |-> mobx,
   propertyRefs |-> propertyRefs, getterRefs |-> getterRefs,
   reactionPrev |-> reactionPrev, updatingFromVue |-> updatingFromVue,
   updatingFromMobx |-> updatingFromMobx,
   deepObserveSubscriptions |-> deepObserveSubscriptions, liveDeep |-> liveDeep,
   handle |-> handle, microtasks |-> microtasks, proxy |-> NoProxy,
   trace |-> << >>, privateValue |-> privateValue, setterRefs |-> setterRefs,
   readOnlyDetected |-> readOnlyDetected, thrown |-> "none",
   subscriptions |-> subscriptions, live |-> live, unmounted |-> unmounted,
   peer |-> peer]

\* the state an operation leaves: r is the record the handlers computed
Assigns(s, last) ==
  /\ lastOp' = last
  /\ \E r \in {s} :
        /\ allowDirectMutation' = r.allowDirectMutation
        /\ mobx' = r.mobx
        /\ propertyRefs' = r.propertyRefs
        /\ getterRefs' = r.getterRefs
        /\ reactionPrev' = r.reactionPrev
        /\ updatingFromVue' = r.updatingFromVue
        /\ updatingFromMobx' = r.updatingFromMobx
        /\ deepObserveSubscriptions' = r.deepObserveSubscriptions
        /\ liveDeep' = r.liveDeep
        /\ handle' = r.handle
        /\ microtasks' = r.microtasks
        /\ trace' = r.trace
        /\ privateValue' = r.privateValue
        /\ setterRefs' = r.setterRefs
        /\ readOnlyDetected' = r.readOnlyDetected
        /\ thrown' = r.thrown
        /\ subscriptions' = r.subscriptions
        /\ live' = r.live
        /\ unmounted' = r.unmounted
        /\ peer' = r.peer

\* an operation of the bridge, in the specifications that do not follow the
\* length of the disposal list
Becomes(s, last) ==
  /\ Assigns(s, last)
  /\ UNCHANGED << setup, comparison, disposedKept >>

\* mobxVueBridge.js useMobxBridge(store, {allowDirectMutation: allow}) on a
\* store whose observable properties hold m
RECURSIVE InitialDeepObserve(_, _)
InitialDeepObserve(st, ps) ==
  LET Run(s) ==
        IF ps = {} THEN s
        ELSE LET p == CHOOSE x \in ps : TRUE IN
             InitialDeepObserve(setupDeepObserve(s, p, s.mobx[p]), ps \ {p})
  IN Strict(st, Run)

\* no second bridge
NoPeer ==
  [present |-> FALSE, allowDirectMutation |-> FALSE,
   propertyRefs |-> [p \in DataProps |-> Undefined],
   updatingFromVue |-> {}, updatingFromMobx |-> {},
   deepObserveSubscriptions |-> [p \in DataProps |-> NoSub],
   liveDeep |-> {}, subscriptions |-> {}, live |-> {},
   handle |-> [p \in DataProps |-> NoHandle]]
Mounted == [done |-> FALSE, failed |-> {}]

useMobxBridge(m, allow) ==
  LET s0 == [allowDirectMutation |-> allow, mobx |-> m,
             propertyRefs |-> [p \in DataProps |-> toJS(m[p])],
             getterRefs |-> [d \in ObservedGetters |-> Undefined],
             reactionPrev |-> [d \in ObservedGetters |-> Undefined],
             updatingFromVue |-> {}, updatingFromMobx |-> {},
             deepObserveSubscriptions |-> [p \in DataProps |-> NoSub],
             liveDeep |-> {}, handle |-> [p \in DataProps |-> NoHandle],
             microtasks |-> << >>, proxy |-> NoProxy, trace |-> << >>,
             privateValue |-> Num(0),
             setterRefs |-> [p \in SetterProps |-> Undefined],
             readOnlyDetected |-> {}, thrown |-> "none",
             subscriptions |-> {Sub("observe", p, "") : p \in DataProps} \cup
                               {Sub("reaction", d, "") : d \in ObservedGetters},
             live |-> {Sub("observe", p, "") : p \in DataProps} \cup
                      {Sub("reaction", d, "") : d \in ObservedGetters},
             unmounted |-> Mounted, peer |-> NoPeer]
      s1 == [s0 EXCEPT !.getterRefs = [d \in ObservedGetters |-> safelyReadInitialValue(s0, d)],
                       !.reactionPrev = [d \in ObservedGetters |-> safelyReadGetter(s0, d)]]
  IN InitialDeepObserve(s1, DataProps)

\* the variables of the bridge hold the state s
BridgeIs(st) ==
  \E s \in {st} :
     /\ allowDirectMutation = s.allowDirectMutation
     /\ mobx = s.mobx
     /\ propertyRefs = s.propertyRefs
     /\ getterRefs = s.getterRefs
     /\ reactionPrev = s.reactionPrev
     /\ updatingFromVue = s.updatingFromVue
     /\ updatingFromMobx = s.updatingFromMobx
     /\ deepObserveSubscriptions = s.deepObserveSubscriptions
     /\ liveDeep = s.liveDeep
     /\ handle = s.handle
     /\ microtasks = s.microtasks
     /\ trace = s.trace
     /\ privateValue = s.privateValue
     /\ setterRefs = s.setterRefs
     /\ readOnlyDetected = s.readOnlyDetected
     /\ thrown = s.thrown
     /\ subscriptions = s.subscriptions
     /\ live = s.live
     /\ unmounted = s.unmounted
     /\ peer = s.peer
     /\ disposedKept = 0
     /\ lastOp = Last("init", "", Undefined)

\* the stores the application builds
Stores == {f \in [DataProps -> Values] : \A p \in DataProps : f[p] \in SlotValues(p)}

\* no call of useMobxBridge under way, no call of isEqual
NotCalled ==
  [Called([typeof |-> "object", truthy |-> TRUE, name |-> "", shape |-> NoShape])
     EXCEPT !.phase = "none"]
NoComparison == [heap |-> << >>, done |-> FALSE, eq |-> FALSE]

Init ==
  \E m \in Stores, allow \in BOOLEAN :
     /\ BridgeIs(useMobxBridge(m, allow))
     /\ setup = NotCalled
     /\ comparison = NoComparison

\* state[p] = v
VueAssign ==
  \E p \in DataProps, v \in Values :
     /\ v \in SlotValues(p)
     /\ Becomes(createTwoWayBindingSetter(St, p, v), Last("VueAssign", p, v))

\* state[p].method(...)
VueProxyCall ==
  \E p \in DataProps :
     /\ IsObject(propertyRefs[p])
     /\ Len(microtasks) < MaxQueue
     /\ \E op \in OpsFor(propertyRefs[p].a) :
           /\ Applicable(op, propertyRefs[p].a)
           /\ Becomes(ProxyCall(St, p, op), Last("VueProxyCall", p, Arr(Result(op, propertyRefs[p].a))))

\* const h = state[p]
VueKeepProxy ==
  \E p \in DataProps :
     /\ IsObject(propertyRefs[p])
     /\ Becomes(KeepProxy(St, p), Last("VueKeepProxy", p, Undefined))

\* h.method(...).  A detached array is written as an empty one: what it
\* holds has no effect on the bridge.
VueHandleCall ==
  \E p \in DataProps :
     /\ handle[p].st # "none"
     /\ handle[p].pending \/ Len(microtasks) < MaxQueue
     /\ LET a == IF handle[p].st = "attached" THEN propertyRefs[p].a ELSE << >> IN
        \E op \in OpsFor(a) :
           /\ Applicable(op, a)
           /\ Becomes(HandleCall(St, p, op, a), Last("VueHandleCall", p, Arr(Result(op, a))))

\* store[p] = v, by the application, not through the bridge
StoreAssign ==
  \E p \in DataProps, v \in Values :
     /\ v \in SlotValues(p)
     /\ Becomes(MobxSet(St, p, v), Last("StoreAssign", p, v))

\* store[p].method(...), by the application, not through the bridge
StoreSplice ==
  \E p \in DataProps :
     /\ IsObject(mobx[p])
     /\ \E op \in OpsFor(mobx[p].a) :
           /\ Applicable(op, mobx[p].a)
           /\ Becomes(MobxSplice(St, p, op), Last("StoreSplice", p, Arr(Result(op, mobx[p].a))))

\* the microtask checkpoint runs the oldest queued callback
Microtask ==
  /\ microtasks # << >>
  /\ LET task == Head(microtasks) IN
     Becomes(FlushCallback([St EXCEPT !.microtasks = Tail(@)], task),
             Last("Microtask", task.prop, Undefined))

\* the values a caller assigns to a derived or write-only member: a number,
\* negative or not
MemberInputs == {Num(n) : n \in -1..MaxNum}

\* state[p] = v on a getter-only member
VueAssignGetter ==
  \E p \in Members, v \in MemberInputs :
     /\ p \in GetterProps
     /\ Becomes(createReadOnlySetter(St, p), Last("VueAssignGetter", p, v))

\* state[p] = v on a getter/setter pair
VueAssignPair ==
  \E p \in Members, v \in MemberInputs :
     /\ p \in PairProps
     /\ Becomes(createLazyValidatedSetter(St, p, v), Last("VueAssignPair", p, v))

\* state[p] = v on a setter-only member
VueAssignTrigger ==
  \E p \in Members, v \in MemberInputs :
     /\ p \in SetterProps
     /\ Becomes(createWriteOnlySetter(St, p, v), Last("VueAssignTrigger", p, v))

\* store.value = v by the application, with a value the setter accepts
StoreSetValue ==
  \E v \in MemberInputs :
     /\ v.n >= 0
     /\ Becomes(StoreSetter(St, "value", v), Last("StoreSetValue", "value", v))

Next ==
  \/ VueAssign
  \/ VueProxyCall
  \/ VueKeepProxy
  \/ VueHandleCall
  \/ StoreAssign
  \/ StoreSplice
  \/ Microtask

Spec == Init /\ [][Next]_vars

\* a queued microtask always runs
FairSpec == Spec /\ WF_vars(Microtask)

\* The derived and write-only members: assignments to every kind of member
\* through the bridging object, and the changes the application makes on the
\* store.  (The deep proxies of the data properties take no part in these.)
MemberNext ==
  \/ VueAssign
  \/ StoreAssign
  \/ VueAssignGetter
  \/ VueAssignPair
  \/ VueAssignTrigger
  \/ StoreSetValue

MemberSpec == Init /\ [][MemberNext]_vars

\* ------------------------------------------------------------- teardown
\* the component unmounts: the callback given to onUnmounted runs, some one
\* disposer (or none) throwing
Teardown ==
  \E faulty \in {{}} \cup {{sub} : sub \in subscriptions} :
     /\ ~unmounted.done
     /\ Becomes(onUnmounted(St, faulty), Last("Teardown", "", Undefined))

\* The bridge until and after its teardown: the changes the application
\* makes on the store, and the unmount.
TeardownNext ==
  \/ StoreAssign
  \/ StoreSplice
  \/ Teardown

TeardownSpec == Init /\ [][TeardownNext]_vars

\* ----------------------------------------------- two bridges on one store
\* const a = useMobxBridge(store, ...), b = useMobxBridge(store, ...)
TwoBridgesInit ==
  \E m \in Stores, allow \in BOOLEAN, allowPeer \in BOOLEAN :
     /\ BridgeIs([useMobxBridge(m, allow)
                    EXCEPT !.peer = PeerFields(useMobxBridge(m, allowPeer))])
     /\ setup = NotCalled
     /\ comparison = NoComparison

\* b[p] = v: an assignment through the second bridge
PeerAssign ==
  \E p \in DataProps, v \in Values :
     /\ v \in SlotValues(p)
     /\ Becomes(Swap(createTwoWayBindingSetter(Swap(St), p, v)), Last("PeerAssign", p, v))

TwoBridgesNext ==
  \/ VueAssign
  \/ PeerAssign
  \/ StoreAssign
  \/ StoreSplice

TwoBridgesSpec == TwoBridgesInit /\ [][TwoBridgesNext]_vars

\* ------------------------------------- useMobxBridge, from call to return
\* the bridge variables of the other specifications take no part
SetupInit ==
  /\ BridgeIs(useMobxBridge([p \in DataProps |-> IF p = "items" THEN Null ELSE Num(0)], TRUE))
  /\ setup \in {Called(o) : o \in NonObjects \cup SourceObjects}
  /\ comparison = NoComparison

\* useMobxBridge(mobxObject) runs
Construct ==
  /\ setup.phase = "called"
  /\ setup' = usePresenterState(setup)
  /\ UNCHANGED << bridgeVars, comparison >>

\* state.member is read, where member is bridged as a method
ReadCallable ==
  /\ setup.phase = "returned"
  /\ setup.descriptor = "method"
  /\ setup.binds <= MaxAccess
  /\ setup' = bridgeMethodGet(setup)
  /\ UNCHANGED << bridgeVars, comparison >>

\* state.member = x, where member is bridged as a method
AssignCallable ==
  /\ setup.phase = "returned"
  /\ setup.descriptor = "method"
  /\ setup.warnings < MaxAccess
  /\ setup' = bridgeMethodSet(setup)
  /\ UNCHANGED << bridgeVars, comparison >>

SetupNext ==
  \/ Construct
  \/ ReadCallable
  \/ AssignCallable

SetupSpec == SetupInit /\ [][SetupNext]_vars

\* --------------------------------------------------------- isEqual(a, b)
\* a and b are the objects 1 and 2 of a heap
EqualityInit ==
  /\ BridgeIs(useMobxBridge([p \in DataProps |-> IF p = "items" THEN Null ELSE Num(0)], TRUE))
  /\ setup = NotCalled
  /\ comparison \in {[heap |-> h, done |-> FALSE, eq |-> FALSE] : h \in Heaps}

\* isEqual(a, b) runs, with a new Map
Compare ==
  /\ ~comparison.done
  /\ comparison' = [comparison EXCEPT
                      !.done = TRUE,
                      !.eq = isEqualIn(comparison.heap, Ref(1), Ref(2), EmptyMap).eq]
  /\ UNCHANGED << bridgeVars, setup >>

EqualityNext == Compare

EqualitySpec == EqualityInit /\ [][EqualityNext]_vars

\* ---------------------------------------------- flushes and the unmount
\* the component unmounts while a flush is queued, every disposer working
Unmount ==
  /\ ~unmounted.done
  /\ microtasks # << >>
  /\ Becomes(onUnmounted(St, {}), Last("Teardown", "", Undefined))

\* state.items = v: the top-level reassignment of the slot the nested
\* writes go to
VueAssignItems ==
  \E v \in Values :
     /\ v \in SlotValues("items")
     /\ Becomes(createTwoWayBindingSetter(St, "items", v), Last("VueAssign", "items", v))

\* store.items = v while the component is mounted; after the unmount no
\* subscription is left and a change on the store cannot reach the bridge
StoreAssignItems ==
  \E v \in Values :
     /\ ~unmounted.done
     /\ v \in SlotValues("items")
     /\ Becomes(MobxSet(St, "items", v), Last("StoreAssign", "items", v))

\* The nested writes and everything that can happen between a nested write
\* and its flush, the unmount included; a queued microtask always runs.
FlushNext ==
  \/ VueAssignItems
  \/ VueKeepProxy
  \/ VueHandleCall
  \/ StoreAssignItems
  \/ Microtask
  \/ Unmount

\* nested writes schedule a flush only where direct mutation is allowed
FlushInit == Init /\ allowDirectMutation /\ mobx["count"] = Num(0)

FlushSpec == FlushInit /\ [][FlushNext]_vars /\ WF_vars(Microtask)

\* ------------------------------------- writes the other side answers at once
\* state[p] = v, the store rejecting the assignment
VueAssignRejected ==
  \E p \in DataProps, v \in Values :
     /\ v \in SlotValues(p)
     /\ Becomes(createTwoWayBindingSetterOn(St, p, v, "rejects"),
                Last("VueAssignRejected", p, v))

\* state[p] = v, the store normalising the value in a reaction of its own
VueAssignNormalised ==
  \E p \in DataProps, v \in Values :
     /\ v \in SlotValues(p)
     /\ Becomes(createTwoWayBindingSetterOn(St, p, v, "normalises"),
                Last("VueAssignNormalised", p, v))

\* store[p] = v, a synchronous watcher of the component assigning
\* state[p] = w when the backing value changes: the value it sees, or that
\* value normalised
StoreAssignWatched ==
  \E p \in DataProps, v \in Values, w \in Values :
     /\ v \in SlotValues(p) /\ w \in {v, Normalised(v)}
     /\ Becomes(MobxSetWatched(St, p, v, w), Last("StoreAssignWatched", p, v))

\* A store that normalises leaves a value that needs no normalising as the
\* plain store does, and so does a watcher that assigns the value it sees.
ReentrantNext ==
  \/ VueAssignRejected
  \/ VueAssignNormalised
  \/ StoreAssignWatched

ReentrantSpec == Init /\ [][ReentrantNext]_vars

\* ------------------------------------------------------ the disposal list
\* an operation of the bridge, the disposal list followed: setupDeepObserve
\* disposes the tracked deepObserve subscription and pushes the new one, and
\* nothing takes the disposed one out of the list
Listed(s, last) ==
  \E r \in {s} :
     /\ Assigns(r, last)
     /\ disposedKept' = disposedKept
                          + Cardinality({j \in 1..Len(r.trace) : r.trace[j].e = "dispose"})
     /\ UNCHANGED << setup, comparison >>

\* store[p] = v
StoreAssignListed ==
  \E p \in DataProps, v \in Values :
     /\ v \in SlotValues(p)
     /\ disposedKept < MaxDisposed
     /\ Listed(MobxSet(St, p, v), Last("StoreAssign", p, v))

\* state[p] = v
VueAssignListed ==
  \E p \in DataProps, v \in Values :
     /\ v \in SlotValues(p)
     /\ disposedKept < MaxDisposed
     /\ Listed(createTwoWayBindingSetter(St, p, v), Last("VueAssign", p, v))

\* state[p].method(...)
VueProxyCallListed ==
  \E p \in DataProps :
     /\ IsObject(propertyRefs[p])
     /\ Len(microtasks) < MaxQueue
     /\ disposedKept < MaxDisposed
     /\ \E op \in OpsFor(propertyRefs[p].a) :
           /\ Applicable(op, propertyRefs[p].a)
           /\ Listed(ProxyCall(St, p, op), Last("VueProxyCall", p, Arr(Result(op, propertyRefs[p].a))))

\* the microtask checkpoint runs the oldest queued flush
MicrotaskListed ==
  /\ microtasks # << >>
  /\ disposedKept < MaxDisposed
  /\ LET task == Head(microtasks) IN
     Listed(FlushCallback([St EXCEPT !.microtasks = Tail(@)], task),
            Last("Microtask", task.prop, Undefined))

\* Wholesale reassignments, from either side, and flushes, until the list
\* holds MaxDisposed disposed subscriptions.
ListNext ==
  \/ StoreAssignListed
  \/ VueAssignListed
  \/ VueProxyCallListed
  \/ MicrotaskListed

ListSpec == Init /\ [][ListNext]_vars

\* ------------------------------------------------------------------ claims
\* how often the last operation did e on property p
CountIn(tr, e, p) == Cardinality({j \in 1..Len(tr) : tr[j] = Ev(e, p)})
Count(e, p) == CountIn(trace, e, p)
\* a flush of p is queued
QueuedIn(q, p) == \E j \in 1..Len(q) : q[j].prop = p
Queued(p) == QueuedIn(microtasks, p)
\* the backing value of p and the store's value of p are deep-equal
InSync(p) == isEqual(propertyRefs[p], toJS(mobx[p]))

\* C1: with allowDirectMutation, when state[p] = v returns, the backing
\* value of p and store[p] both deep-equal v (the store is written inside the
\* assignment).
C1_AssignReachesBothSides ==
  (lastOp.kind = "VueAssign" /\ allowDirectMutation) =>
     /\ isEqual(propertyRefs[lastOp.p], lastOp.v)
     /\ isEqual(toJS(mobx[lastOp.p]), lastOp.v)

\* C2: after store[p] = v made by the application (p not guarded), the
\* backing value of p deep-equals the store's new value of p.
C2_StoreAssignReachesBacking ==
  lastOp.kind = "StoreAssign" =>
     /\ isEqual(toJS(mobx[lastOp.p]), lastOp.v)
     /\ isEqual(propertyRefs[lastOp.p], toJS(mobx[lastOp.p]))

C2_Witness ==
  /\ lastOp.kind = "StoreAssign"
  /\ Count("notify", lastOp.p) = 1
  /\ Count("refWrite", lastOp.p) = 1
  /\ Count("echoSkipped", lastOp.p) = 0

\* C3: one state[p] = v assigns store[p] at most once; the listener call
\* that assignment causes is skipped by the echo guard, the handler does not
\* write the backing value, and nothing is left queued by the assignment.
C3_EchoSuppressed ==
  lastOp.kind = "VueAssign" =>
     /\ Count("assign", lastOp.p) <= 1
     /\ Count("notify", lastOp.p) = Count("assign", lastOp.p)
     /\ Count("echoSkipped", lastOp.p) = Count("notify", lastOp.p)
     /\ Count("refWrite", lastOp.p) = 0
     /\ Count("queueMicrotask", lastOp.p) = 0
     /\ updatingFromVue = {} /\ updatingFromMobx = {}

C3_Witness ==
  /\ lastOp.kind = "VueAssign"
  /\ Count("assign", lastOp.p) = 1
  /\ Count("echoSkipped", lastOp.p) = 1

\* C4: assignments through the bridging object and assignments made on the
\* store by the application, in any order, keep every backing value
\* deep-equal to the store's value; with allowDirectMutation this holds
\* whenever no flush is queued, whatever else was done.
AllInSync == \A p \in DataProps : InSync(p)
C4Step ==
  (/\ lastOp'.kind \in {"VueAssign", "StoreAssign"}
   /\ microtasks = << >> /\ AllInSync) => (microtasks' = << >> /\ AllInSync')
C4_QuiescentInSync ==
  /\ [][C4Step]_vars
  /\ []((allowDirectMutation /\ microtasks = << >>) => AllInSync)

C4_Witness ==
  /\ lastOp.kind = "VueAssign" /\ lastOp.p = "count"
  /\ Count("assign", "count") = 1
  /\ microtasks = << >> /\ AllInSync
  /\ IsObject(mobx["items"]) /\ Len(mobx["items"].a) > 0
  /\ handle["items"].st = "detached"

\* C5: an array method called through the bridging object never assigns the
\* store while it runs, and when the microtask checkpoint follows it, the
\* backing value and the store's value both deep-equal the method applied
\* once to the array.
C5Step ==
  /\ lastOp'.kind \in {"VueProxyCall", "VueHandleCall"} =>
        /\ CountIn(trace', "assign", lastOp'.p) = 0
        /\ CountIn(trace', "flush", lastOp'.p) = 0
  /\ (/\ lastOp.kind = "VueProxyCall" /\ allowDirectMutation
      /\ lastOp'.kind = "Microtask" /\ lastOp'.p = lastOp.p) =>
        /\ isEqual(propertyRefs'[lastOp.p], lastOp.v)
        /\ isEqual(toJS(mobx'[lastOp.p]), lastOp.v)
C5_ArrayMethodsNotCorrupted == [][C5Step]_vars

C5_Witness ==
  /\ lastOp.kind = "VueProxyCall" /\ allowDirectMutation
  /\ Count("set", "items") >= 2
  /\ Len(mobx["items"].a) = 2
  /\ propertyRefs["items"] = Arr(<< mobx["items"].a[2] >>)
  /\ mobx["items"].a[1] # mobx["items"].a[2]

\* C6: with allowDirectMutation, a nested write through state[p] shows in
\* the backing value at once, queues a flush, and leaves the store's value
\* as it was.
C6Step ==
  /\ lastOp'.kind \in {"VueProxyCall", "VueHandleCall", "VueKeepProxy"} => mobx' = mobx
  /\ (lastOp'.kind = "VueProxyCall" /\ allowDirectMutation) =>
        /\ propertyRefs'[lastOp'.p] = lastOp'.v
        /\ QueuedIn(microtasks', lastOp'.p)
C7_OneFlushPerSlot ==
  \A p \in DataProps :
     Cardinality({j \in 1..Len(microtasks) : microtasks[j].prop = p}) <= 1

\* C7 (amended): the writes made through one proxy are coalesced: a method
\* call queues at most one flush however many [[Set]]s it makes, the kept
\* proxy has one flush queued exactly while its updatePending is set, and
\* each flush assigns the store once.
C7_OneFlushPerProxy ==
  /\ \A p \in DataProps :
        Cardinality({j \in 1..Len(microtasks) :
                        microtasks[j] = [prop |-> p, held |-> TRUE]})
           = IF handle[p].pending THEN 1 ELSE 0
  /\ lastOp.kind \in {"VueProxyCall", "VueHandleCall"} =>
        Count("queueMicrotask", lastOp.p) <= 1
  /\ (lastOp.kind = "VueProxyCall" /\ allowDirectMutation) =>
        Count("queueMicrotask", lastOp.p) = 1
  /\ lastOp.kind = "Microtask" =>
        Count("flush", lastOp.p) = 1 /\ Count("assign", lastOp.p) = 1

C7_Witness ==
  /\ lastOp.kind = "VueHandleCall" /\ allowDirectMutation
  /\ Count("set", lastOp.p) >= 2
  /\ Count("queueMicrotask", lastOp.p) = 0
  /\ handle[lastOp.p].pending
  /\ Cardinality({j \in 1..Len(microtasks) : microtasks[j].prop = lastOp.p}) = 2

\* C8: the nested writes made since the last flush stay in the backing
\* value, whatever the application changes on the store's property
\* meanwhile, and the flush assigns that backing value to the store.
C8Step ==
  /\ \A p \in DataProps :
        (/\ Queued(p) /\ ~InSync(p)
         /\ lastOp'.kind \in {"StoreAssign", "StoreSplice"} /\ lastOp'.p = p) =>
           propertyRefs'[p] = propertyRefs[p]
  /\ lastOp'.kind = "Microtask" =>
        isEqual(toJS(mobx'[lastOp'.p]), propertyRefs[lastOp'.p])
C8_FlushReflectsNestedWrites == [][C8Step]_vars

\* C9: every data property has at most one live deepObserve subscription,
\* it is the tracked one and it is on the property's current value, and it
\* exists exactly when that value is an object; an in-place change of the
\* current value on the store reaches the backing value.
C9_DeepObserveFollowsValue ==
  /\ \A p \in DataProps :
        /\ <<p, "stale">> \notin liveDeep
        /\ <<p, "cur">> \in liveDeep <=> IsObject(mobx[p])
        /\ deepObserveSubscriptions[p] = IF IsObject(mobx[p]) THEN "cur" ELSE NoSub
  /\ lastOp.kind = "StoreSplice" => InSync(lastOp.p)

C9_Witness ==
  /\ lastOp.kind \in {"StoreAssign", "VueAssign"}
  /\ Count("dispose", lastOp.p) = 1
  /\ Count("deepObserve", lastOp.p) = 1
  /\ <<lastOp.p, "cur">> \in liveDeep

\* C10: after items was changed through the bridging object, the backing
\* value of itemCount comes to hold what the store's getter gives for the value
\* items then has in the bridging object.
C10_Changed ==
  /\ lastOp.kind \in {"VueAssign", "VueProxyCall"} /\ lastOp.p = "items"
  /\ allowDirectMutation
C10_DerivedFollows ==
  C10_Changed ~> (getterRefs["itemCount"] = itemCount(propertyRefs["items"]))

C10_Witness ==
  /\ lastOp.kind = "Microtask" /\ lastOp.p = "items"
  /\ Count("assign", "items") = 1
  /\ getterRefs["itemCount"] = Num(MaxLen)
  /\ propertyRefs["items"].t = "array" /\ Len(propertyRefs["items"].a) = MaxLen

\* C11: an assignment through the bridging object to a getter-only member
\* throws the computed-property error, every time and whatever
\* allowDirectMutation is, calls no setter of the store and leaves the
\* backing refs and the store as they were.
C11Step ==
  lastOp'.kind = "VueAssignGetter" =>
     /\ thrown' = "readonly"
     /\ CountIn(trace', "sourceSet", lastOp'.p) = 0
     /\ getterRefs' = getterRefs /\ propertyRefs' = propertyRefs
     /\ mobx' = mobx /\ privateValue' = privateValue
C11_ReadOnlyAssignThrows == [][C11Step]_vars

C11_Witness ==
  /\ lastOp.kind = "VueAssignGetter" /\ thrown = "readonly"
  /\ getterRefs["itemCount"] = Num(MaxLen)

\* C12: with allowDirectMutation, an assignment to doubled (the store's
\* setter raises MobX's read-only error) throws the computed-property error
\* and leaves doubled in readOnlyDetected: the first one after calling the
\* store's setter once, the later ones without calling it; no name ever
\* leaves readOnlyDetected.
C12Step ==
  /\ (lastOp'.kind = "VueAssignPair" /\ lastOp'.p = "doubled" /\ allowDirectMutation) =>
        /\ thrown' = "readonly"
        /\ "doubled" \in readOnlyDetected'
        /\ CountIn(trace', "sourceSet", "doubled")
              = IF "doubled" \in readOnlyDetected THEN 0 ELSE 1
  /\ readOnlyDetected \subseteq readOnlyDetected'
C13Step ==
  (lastOp'.kind = "VueAssignPair" /\ lastOp'.p = "value" /\ allowDirectMutation) =>
     /\ CountIn(trace', "sourceSet", "value") = 1
     /\ "value" \notin readOnlyDetected'
     /\ thrown' = "none"
     /\ CountIn(trace', "setterWarning", "value") = IF lastOp'.v.n < 0 THEN 1 ELSE 0
     /\ lastOp'.v.n < 0 => privateValue' = privateValue
C13_OtherErrorSwallowed == [][C13Step]_vars

C13_Witness ==
  /\ lastOp.kind = "VueAssignPair" /\ lastOp.p = "value" /\ lastOp.v.n < 0
  /\ Count("setterWarning", "value") = 1 /\ thrown = "none"
  /\ privateValue = Num(MaxNum) /\ getterRefs["value"] = Num(MaxNum)

\* C14: no operation leaves an error to its caller but an assignment to a
\* read-only member, which leaves the computed-property error.
C14_OnlyReadOnlyErrorReachesCaller ==
  /\ thrown \in {"none", "readonly"}
  /\ thrown = "readonly" => lastOp.kind \in {"VueAssignGetter", "VueAssignPair"}

\* C15: an assignment to command whose store setter throws returns
\* normally and warns.
C15_TriggerErrorSwallowed ==
  (lastOp.kind = "VueAssignTrigger" /\ allowDirectMutation /\ lastOp.v.n < 0) =>
     /\ thrown = "none"
     /\ Count("setterWarning", lastOp.p) = 1

\* C16: the backing ref of command is undefined at first, holds the assigned
\* value after every assignment made with allowDirectMutation, and is
\* changed by nothing else (no change of the store reaches it).
C16Step ==
  /\ (lastOp'.kind = "VueAssignTrigger" /\ allowDirectMutation) =>
        setterRefs'[lastOp'.p] = lastOp'.v
  /\ lastOp'.kind # "VueAssignTrigger" => setterRefs' = setterRefs
C17Step ==
  (~allowDirectMutation /\ lastOp'.kind \in {"VueAssign", "VueProxyCall", "VueHandleCall"}) =>
     /\ propertyRefs' = propertyRefs
     /\ mobx' = mobx
     /\ microtasks' = microtasks
     /\ thrown' = "none"
     /\ CountIn(trace', "warn", lastOp'.p) >= 1
C17_DisabledWritesChangeNothing == [][C17Step]_vars

\* C18: without allowDirectMutation, an assignment to a getter/setter pair
\* or to a setter-only member calls no setter of the store, leaves the
\* backing refs as they were, warns once and returns normally.
C18Step ==
  (~allowDirectMutation /\ lastOp'.kind \in {"VueAssignPair", "VueAssignTrigger"}) =>
     /\ CountIn(trace', "sourceSet", lastOp'.p) = 0
     /\ getterRefs' = getterRefs /\ setterRefs' = setterRefs
     /\ privateValue' = privateValue /\ readOnlyDetected' = readOnlyDetected
     /\ CountIn(trace', "warn", lastOp'.p) = 1
     /\ thrown' = "none"
C19_ThrowingGetterGivesUndefined ==
  /\ ~IsObject(mobx["items"]) => getterRefs["itemCount"] = Undefined
  /\ lastOp.kind \in {"init", "VueAssign", "StoreAssign", "StoreSplice", "Microtask"} =>
        thrown = "none"

C19_Witness ==
  /\ lastOp.kind = "StoreAssign" /\ lastOp.p = "items"
  /\ mobx["items"] = Null
  /\ Count("refWrite", "items") = 1
  /\ getterRefs["itemCount"] = Undefined

\* C20: when items becomes an array while the backing ref of itemCount holds
\* undefined because the getter threw, the ref holds the getter's new value
\* when that change returns.
C20Step ==
  (/\ ~IsObject(mobx["items"]) /\ getterRefs["itemCount"] = Undefined
   /\ IsObject(mobx'["items"])) =>
     getterRefs'["itemCount"] = Num(Len(mobx'["items"].a))
C20_DerivedRecovers == [][C20Step]_vars

C20_Witness ==
  /\ lastOp.kind = "StoreAssign" /\ lastOp.p = "items"
  /\ Count("dispose", "items") = 0 /\ Count("deepObserve", "items") = 1
  /\ getterRefs["itemCount"] = Num(MaxLen)

\* the five categories the name p was bridged under
CategoriesOf(su, p) ==
  {k \in 1..5 : p \in <<su.dataSlots, su.readOnlyDerived, su.writableDerived,
                        su.writeOnlyTriggers, su.callables>>[k]}

\* C21: when useMobxBridge has returned, every candidate member name (own
\* or prototype name that is not 'constructor' and does not start with an
\* underscore) is in exactly one of the five categories data slot, read-only
\* derived, writable derived, write-only trigger, callable, whatever its
\* accessors, its value and the answers of the introspection are.
C21_ExactlyOneCategory ==
  setup.phase = "returned" =>
     \A p \in setup.members.props : Cardinality(CategoriesOf(setup, p)) = 1

\* C22: every member bridged as a write-only trigger has a setter accessor,
\* has no getter accessor, and is not reported as observable.
C22_TriggerHasOnlySetter ==
  setup.phase = "returned" =>
     \A p \in setup.writeOnlyTriggers :
        /\ setup.mobxObject.shape.set
        /\ ~setup.mobxObject.shape.get
        /\ setup.mobxObject.shape.observable # "true"

LiveSubscriptions(observers, deep) ==
  observers \cup {Sub("deep", x[1], x[2]) : x \in deep}

\* C24: the teardown disposes every subscription the bridge has made, deep
\* subscriptions of later re-subscriptions included; a disposer that throws
\* does not make the teardown throw and does not keep the other
\* subscriptions from being disposed; and after a teardown in which no
\* disposer failed, a change on the store changes no backing ref.
C24Step ==
  /\ lastOp'.kind = "Teardown" =>
        /\ thrown' = "none"
        /\ unmounted'.done
        /\ LiveSubscriptions(live', liveDeep') \subseteq unmounted'.failed
  /\ (/\ unmounted.done
      /\ unmounted.failed = {}
      /\ lastOp'.kind \in {"StoreAssign", "StoreSplice"}) =>
        /\ propertyRefs' = propertyRefs
        /\ getterRefs' = getterRefs

C25_InvalidSourceThrowsFirst ==
  (setup.last = "setup" /\ setup.mobxObject \in NonObjects) =>
     /\ setup.phase = "thrown"
     /\ setup.error = "argument"
     /\ ~setup.classified
     /\ setup.refs = {}
     /\ setup.subscriptions = {}
     /\ setup.sourceOps = {}

C25_Witness ==
  /\ setup.phase = "thrown"
  /\ setup.mobxObject.typeof = "object"
  /\ ~setup.mobxObject.truthy
  /\ setup.error = "argument"

\* C26: every read of a callable member gives the one function that was
\* bound to the source object when the member was installed; an assignment
\* to the member warns, and changes neither that function nor the source.
C26Step ==
  /\ setup'.last = "read" =>
        /\ setup'.lastRead = 1
        /\ setup'.boundMethod = 1
        /\ setup'.binds = 1
  /\ setup'.last = "assign" =>
        /\ setup'.warnings = setup.warnings + 1
        /\ setup'.boundMethod = setup.boundMethod
        /\ setup'.binds = setup.binds
        /\ setup'.sourceOps = setup.sourceOps

C26_CallableIsBoundOnce == [][C26Step]_vars

C26_Witness ==
  /\ setup.last = "read"
  /\ setup.warnings = MaxAccess
  /\ setup.lastRead = setup.boundMethod
  /\ "member" \in setup.callables

\* the objects below the object i of a heap
Children(heap, i) ==
  {heap[i].vals[j].n : j \in {k \in 1..Len(heap[i].vals) : heap[i].vals[k].t = "ref"}}
RECURSIVE Reach(_, _, _)
Reach(heap, from, n) ==
  IF n = 0 THEN from
  ELSE Reach(heap, from \cup UNION {Children(heap, i) : i \in from}, n - 1)
Below(heap, i) == Reach(heap, Children(heap, i), Cardinality(DOMAIN heap))
\* a cycle can be reached from the object i
Cyclic(heap, i) == \E k \in {i} \cup Below(heap, i) : k \in Below(heap, k)

\* structural equality of two values of a heap without cycles: equal
\* primitives, or two arrays of the same length with pairwise equal elements,
\* or two plain objects with the same key set and pairwise equal values
RECURSIVE StructurallyEqual(_, _, _)
StructurallyEqual(heap, a, b) ==
  IF a.t # "ref" \/ b.t # "ref" THEN a = b
  ELSE LET x == heap[a.n]
           y == heap[b.n]
       IN /\ x.array = y.array
          /\ KeySet(x) = KeySet(y)
          /\ \A key \in KeySet(x) : StructurallyEqual(heap, Get(x, key), Get(y, key))

\* C27: for values without cycles, built from primitives, arrays and plain
\* objects, one object possibly referenced more than once, isEqual(a, b) is
\* true exactly when a and b are structurally equal.
C27_EqualIffStructurallyEqual ==
  (/\ comparison.done
   /\ ~Cyclic(comparison.heap, 1)
   /\ ~Cyclic(comparison.heap, 2)) =>
     (comparison.eq <=> StructurallyEqual(comparison.heap, Ref(1), Ref(2)))

\* { x: n, ref: itself }
SelfReferential(heap, i) ==
  /\ heap[i].keys = <<"x", "ref">>
  /\ heap[i].vals[2] = Ref(i)

C29Step ==
  (lastOp'.kind = "VueAssign" /\ isEqual(propertyRefs[lastOp'.p], lastOp'.v)) =>
     /\ CountIn(trace', "assign", lastOp'.p) = 0
     /\ mobx' = mobx
     /\ propertyRefs' = propertyRefs
     /\ handle' = handle

C29_EqualAssignWritesNothing == [][C29Step]_vars

C29_Witness ==
  /\ lastOp.kind = "VueAssign"
  /\ allowDirectMutation
  /\ IsObject(lastOp.v)
  /\ isEqual(propertyRefs[lastOp.p], lastOp.v)
  /\ handle[lastOp.p].st = "attached"
  /\ trace = << >>

\* C30: the echo guards belong to one bridge: with two bridges on one store
\* (both allowing direct mutation where they assign), an assignment
\* state[p] = v through either is not suppressed by the other's guard, and
\* when it returns the other bridge's backing value of p deep-equals v.
C30Step ==
  /\ (lastOp'.kind = "VueAssign" /\ allowDirectMutation) =>
        isEqual(peer'.propertyRefs[lastOp'.p], lastOp'.v)
  /\ (lastOp'.kind = "PeerAssign" /\ peer.allowDirectMutation) =>
        isEqual(propertyRefs'[lastOp'.p], lastOp'.v)

QueuedProps(q) == [j \in 1..Len(q) |-> q[j].prop]
IsPrefix(a, b) == Len(a) <= Len(b) /\ \A j \in 1..Len(a) : a[j] = b[j]

\* C31: a queued flush is never taken from the queue by a nested write, a
\* top-level assignment, a change on the store or the unmount: it stays
\* queued, in its place, until the microtask checkpoint runs it; the oldest
\* queued flush does run; and when a flush runs it clears the pending flag of
\* the proxy that scheduled it, so that the next nested write through that
\* proxy schedules a new flush.
C31Step ==
  /\ lastOp'.kind # "Microtask" =>
        IsPrefix(QueuedProps(microtasks), QueuedProps(microtasks'))
  /\ lastOp'.kind = "Microtask" =>
        /\ microtasks # << >>
        /\ QueuedProps(microtasks') = Tail(QueuedProps(microtasks))
        /\ lastOp'.p = Head(microtasks).prop
        /\ CountIn(trace', "flush", lastOp'.p) = 1
        /\ Head(microtasks).held => ~handle'[lastOp'.p].pending
  /\ (/\ lastOp'.kind = "VueHandleCall"
      /\ allowDirectMutation
      /\ ~handle[lastOp'.p].pending
      /\ CountIn(trace', "set", lastOp'.p) > 0) =>
        CountIn(trace', "queueMicrotask", lastOp'.p) = 1

C31_FlushAlwaysRuns ==
  /\ [][C31Step]_vars
  /\ (microtasks # << >> /\ lastOp.kind # "Microtask") ~> (lastOp.kind = "Microtask")
  /\ (Len(microtasks) = MaxQueue) ~> (Len(microtasks) < MaxQueue)

C31_Witness ==
  /\ lastOp.kind = "VueHandleCall"
  /\ unmounted.done
  /\ Count("queueMicrotask", lastOp.p) = 1
  /\ handle[lastOp.p].pending
  /\ Len(microtasks) = 1

C33_WriteInsideUpdateSuppressed ==
  (lastOp.kind = "StoreAssignWatched" /\ Count("watcher", lastOp.p) > 0) =>
     Count("assign", lastOp.p) = 0

\* C36: when the assignment to the store inside a top-level write of a data
\* slot throws, the backing value of the slot is the one it was before the
\* write.
C36_RejectedWriteKeepsBackingValue ==
  [][(lastOp'.kind = "VueAssignRejected" /\ CountIn(trace', "rejected", lastOp'.p) > 0) =>
        propertyRefs'[lastOp'.p] = propertyRefs[lastOp'.p]]_vars

\* C37: when the store, during a top-level write of data slot p through the
\* bridging object, assigns another value to p in reaction to it, then after
\* the write has returned the backing value of p deep-equals the value p has
\* in the store.
C37_NormalisedWriteInSync ==
  (lastOp.kind = "VueAssignNormalised" /\ Count("normalise", lastOp.p) > 0) =>
     isEqual(propertyRefs[lastOp.p], toJS(mobx[lastOp.p]))

\* C34: an assignment through the bridging object to a derived member the
\* store cannot write, that is to a getter-only member or to doubled (whose
\* write path in the store raises MobX's not-writable error), throws the
\* computed-property error to the caller, every time and whatever
\* allowDirectMutation is.
C34_UnwritableDerivedAlwaysThrows ==
  (\/ lastOp.kind = "VueAssignGetter"
   \/ lastOp.kind = "VueAssignPair" /\ lastOp.p = "doubled") =>
     thrown = "readonly"

\* C35: a nested write through a handle read from the bridging object before
\* the backing value of its slot was replaced (by a flush, by a top-level
\* assignment or by a change on the store) still changes the slot's current
\* backing value, and the next flush assigns that changed value to the store.
C35Step ==
  (/\ lastOp'.kind = "VueHandleCall"
   /\ allowDirectMutation
   /\ handle[lastOp'.p].st = "detached"
   /\ CountIn(trace', "set", lastOp'.p) > 0) =>
     propertyRefs'[lastOp'.p] # propertyRefs[lastOp'.p]
C35_StaleHandleWritesCurrentValue == [][C35Step]_vars

\* C38: isEqual is symmetric: isEqual(a, b) and isEqual(b, a) give the same
\* answer, also where an object is referred to more than once or refers to
\* itself.
C38_Symmetric ==
  comparison.done =>
     comparison.eq = isEqualIn(comparison.heap, Ref(2), Ref(1), EmptyMap).eq

\* the calls of isEqual nest no deeper than this: one call for each object
\* of the heap, each entered into visited once, and one for a value below
\* the last of them
LeftObjects == 2 + MaxInner
RecursionDepth == LeftObjects + 1

\* C39: isEqual returns, and returns a boolean, for every two values of a
\* heap, also where objects refer to themselves or to each other in a cycle:
\* its calls nest no deeper than the number of objects allows, each object of
\* the first argument being entered into visited once.
C39_Terminates ==
  comparison.done =>
     /\ comparison.eq \in BOOLEAN
     /\ LET r == isEqualWithin(comparison.heap, Ref(1), Ref(2), EmptyMap, RecursionDepth)
        IN /\ ~r.overflow
           /\ r.eq = comparison.eq
           /\ Cardinality(DOMAIN r.visited) < RecursionDepth

C39_Witness ==
  /\ comparison.done
  /\ comparison.eq
  /\ Cyclic(comparison.heap, 1)
  /\ Cyclic(comparison.heap, 2)

\* the length of the bridge's list subscriptions
ListLength == Cardinality(subscriptions) + disposedKept

\* C40: the list subscriptions holds live subscriptions only, and never more
\* entries than two for each data property and one for each derived member,
\* however often a property is reassigned or flushed.
C40_ListHoldsLiveOnly ==
  /\ disposedKept = 0
  /\ ListLength <= 2 * Cardinality(DataProps) + Cardinality(ObservedGetters)

====
